---- MODULE Spec2Model ----
(***************************************************************************)
(* Model of the annotation-editing engine of pdfleyer (DrawingCanvas):     *)
(* the pointer/keyboard handlers, the geometry helpers and the annotation  *)
(* factory, as a state machine over the component's React state.           *)
(* The state cell currentPoint (the live end point of the preview) is      *)
(* written by the pointer handlers and read by the render pass only; the   *)
(* render pass is not part of the model, and neither is that cell.         *)
(***************************************************************************)
EXTENDS Integers, Naturals, Sequences, FiniteSets, TLC

\* ------------------------------------------------------------------------
\* Bounds of the model (not program constants)
\* ------------------------------------------------------------------------
\* number of inputs in one behaviour that grow the state: a change of the tool
\* (other than deselecting it between gestures), a change of page, a commit, a
\* pointer-move that edits an annotation or extends a freehand path, the
\* opening of a text entry, and a pointer-down that arrives while the gesture
\* of an earlier pointer-down is still pending
MaxInputs == 3
\* number of annotations committed in one behaviour
MaxCommits == 2
\* number of annotations in the collections that hit testing is tried on
MaxStored == 2
\* largest page count of a document
MaxPages == 4
\* number of toolbar button presses in one behaviour
MaxPresses == 2
\* number of document loads started in one behaviour
MaxLoads == 3
\* number of page renderings in flight at once
MaxInFlight == 2

\* ------------------------------------------------------------------------
\* Inputs
\* ------------------------------------------------------------------------
Pt(x, y) == [x |-> x, y |-> y]

\* pointer positions in surface-local pixels
Points == {Pt(10, 50), Pt(50, 10), Pt(30, 30), Pt(56, 50)}

\* positions of the clicks that open a text entry
ClickPoints == {Pt(10, 50), Pt(30, 30)}

Pages == {1, 2}

\* the page the viewer opens on
FirstPage == 1

\* ToolType: 'rect' | 'circle' | 'line' | 'freehand' | 'text' | null
NoTool == "none"
ShapeTools == {"rect", "circle", "line", "freehand"}
Tools == ShapeTools \cup {"text", NoTool}

\* typed contents of the text entry, as sequences of characters
TextValues == {<< >>, <<" ">>, <<"H", "i", " ">>}

Keys == {"Enter", "Escape", "Delete"}

\* an absent value (null) of a Point or id state cell is the empty sequence,
\* a present one the one-element sequence holding it
None == << >>
Some(v) == <<v>>

\* ------------------------------------------------------------------------
\* IEEE-754 numbers as far as the handlers use them: a finite value is the
\* reduced fraction n/d with d > 0; d = 0 encodes the non-finite values
\* (n = 0: NaN, n = 1: +Infinity, n = -1: -Infinity)
\* ------------------------------------------------------------------------
Abs(i) == IF i < 0 THEN -i ELSE i

Sign(i) == IF i < 0 THEN -1 ELSE IF i = 0 THEN 0 ELSE 1

Min2(a, b) == IF a <= b THEN a ELSE b

Max2(a, b) == IF a >= b THEN a ELSE b

RECURSIVE GCD(_, _)
GCD(a, b) == IF b = 0 THEN a ELSE GCD(b, a % b)

NaN == [n |-> 0, d |-> 0]

Inf(s) == [n |-> s, d |-> 0]

IsFinite(v) == v.d > 0

IsNaN(v) == v.d = 0 /\ v.n = 0

Frac(n, d) == LET g == GCD(Abs(n), d) IN [n |-> n \div g, d |-> d \div g]

Num(i) == [n |-> i, d |-> 1]

\* a / b on numbers that hold integers
DivInt(a, b) == IF b = 0 THEN (IF a = 0 THEN NaN ELSE Inf(Sign(a)))
                ELSE Frac(Sign(b) * a, Abs(b))

\* v + i for a number v and an integer i
AddInt(v, i) == IF IsFinite(v) THEN Frac(v.n + i * v.d, v.d) ELSE v

\* v * s
Mul(v, s) == IF IsNaN(v) \/ IsNaN(s) THEN NaN
             ELSE IF IsFinite(v) /\ IsFinite(s) THEN Frac(v.n * s.n, v.d * s.d)
             ELSE IF v.n = 0 \/ s.n = 0 THEN NaN
             ELSE Inf(Sign(v.n) * Sign(s.n))

\* v < s, false when either is NaN
Less(v, s) == IF IsNaN(v) \/ IsNaN(s) THEN FALSE
              ELSE IF IsFinite(v) /\ IsFinite(s) THEN v.n * s.d < s.n * v.d
              ELSE IF IsFinite(v) THEN s.n > 0
              ELSE IF IsFinite(s) THEN v.n < 0
              ELSE v.n < s.n

\* Math.min(v, s) and Math.max(v, s)
MathMin(v, s) == IF IsNaN(v) \/ IsNaN(s) THEN NaN ELSE IF Less(s, v) THEN s ELSE v

MathMax(v, s) == IF IsNaN(v) \/ IsNaN(s) THEN NaN ELSE IF Less(v, s) THEN s ELSE v

\* a rounding that drops the fraction
MathRoundDown(v) == IF IsFinite(v) THEN Num(v.n \div v.d) ELSE v

\* Math.round(v): the nearest integer, ties towards +Infinity
MathRound(v) == IF IsFinite(v) THEN Num((2 * v.n + v.d) \div (2 * v.d)) ELSE v

\* v || fallback on a number: 0 and NaN are falsy
OrElse(v, fallback) == IF IsNaN(v) \/ (IsFinite(v) /\ v.n = 0) THEN fallback ELSE v

\* ------------------------------------------------------------------------
\* Annotation factory
\* ------------------------------------------------------------------------
\* id: `ann-${timestamp}`
AnnId(timestamp) == <<"ann", timestamp>>

\* baseAttrs of the canvas
baseColor == "#FF0000"

baseStrokeWidth == 3

RECURSIVE SeqMin(_)
SeqMin(s) == IF Len(s) = 1 THEN s[1] ELSE Min2(s[1], SeqMin(Tail(s)))

RECURSIVE SeqMax(_)
SeqMax(s) == IF Len(s) = 1 THEN s[1] ELSE Max2(s[1], SeqMax(Tail(s)))

\* a box anchored at the press point, without the normalisation
DragBboxFromStart(start, end) ==
    [x |-> start.x, y |-> start.y,
     w |-> Abs(end.x - start.x), h |-> Abs(end.y - start.y)]

\* the box of two drag points
DragBbox(start, end) ==
    [x |-> Min2(start.x, end.x), y |-> Min2(start.y, end.y),
     w |-> Abs(end.x - start.x), h |-> Abs(end.y - start.y)]

\* the box of the first and the last point of a sequence
PathBboxOfEnds(points) == DragBbox(points[1], points[Len(points)])

\* the envelope of a non-empty point sequence
PathBbox(points) ==
    LET xs == [i \in DOMAIN points |-> points[i].x]
        ys == [i \in DOMAIN points |-> points[i].y]
    IN [x |-> SeqMin(xs), y |-> SeqMin(ys),
        w |-> SeqMax(xs) - SeqMin(xs), h |-> SeqMax(ys) - SeqMin(ys)]

\* a factory that stores the endpoints of a line as the corners of its bbox
createAnnotationLineNormalized(tool, start, end, points, pg, timestamp) ==
    IF tool = NoTool \/ (tool = "freehand" /\ Len(points) = 0) THEN None
    ELSE Some([id |-> AnnId(timestamp),
               type |-> IF tool = "freehand" THEN "path" ELSE tool,
               page |-> pg,
               bbox |-> IF tool = "freehand" THEN PathBbox(points) ELSE DragBbox(start, end),
               attributes |->
                   IF tool = "line" THEN
                       [color |-> baseColor, strokeWidth |-> baseStrokeWidth,
                        startX |-> Num(Min2(start.x, end.x)), startY |-> Num(Min2(start.y, end.y)),
                        endX |-> Num(Max2(start.x, end.x)), endY |-> Num(Max2(start.y, end.y))]
                   ELSE IF tool = "freehand" THEN
                       [color |-> baseColor, strokeWidth |-> baseStrokeWidth,
                        points |-> [i \in DOMAIN points |->
                                       [x |-> Num(points[i].x), y |-> Num(points[i].y)]]]
                   ELSE [color |-> baseColor, strokeWidth |-> baseStrokeWidth],
               createdAt |-> timestamp])

\* createAnnotation(tool, start, end, points, page), with the value that
\* Date.now() returns passed as timestamp; None when nothing is created
createAnnotation(tool, start, end, points, pg, timestamp) ==
    IF tool = NoTool THEN None
    ELSE IF tool \in {"rect", "circle"} THEN
        Some([id |-> AnnId(timestamp), type |-> tool, page |-> pg,
              bbox |-> DragBbox(start, end),
              attributes |-> [color |-> baseColor, strokeWidth |-> baseStrokeWidth],
              createdAt |-> timestamp])
    ELSE IF tool = "line" THEN
        Some([id |-> AnnId(timestamp), type |-> "line", page |-> pg,
              bbox |-> DragBbox(start, end),
              attributes |-> [color |-> baseColor, strokeWidth |-> baseStrokeWidth,
                              startX |-> Num(start.x), startY |-> Num(start.y),
                              endX |-> Num(end.x), endY |-> Num(end.y)],
              createdAt |-> timestamp])
    ELSE IF tool = "freehand" /\ Len(points) > 0 THEN
        Some([id |-> AnnId(timestamp), type |-> "path", page |-> pg,
              bbox |-> PathBbox(points),
              attributes |-> [color |-> baseColor, strokeWidth |-> baseStrokeWidth,
                              points |-> [i \in DOMAIN points |->
                                             [x |-> Num(points[i].x), y |-> Num(points[i].y)]]],
              createdAt |-> timestamp])
    ELSE None

\* textValue.trim()
IsSpace(c) == c = " "

RECURSIVE TrimLeft(_)
TrimLeft(s) == IF s # << >> /\ IsSpace(Head(s)) THEN TrimLeft(Tail(s)) ELSE s

RECURSIVE TrimRight(_)
TrimRight(s) == IF s # << >> /\ IsSpace(s[Len(s)]) THEN TrimRight(SubSeq(s, 1, Len(s) - 1)) ELSE s

Trim(s) == TrimRight(TrimLeft(s))

\* the text annotation built by handleTextKeyDown
defaultTextW == 100

defaultTextH == 20

defaultFontSize == 16

\* a text annotation that stores the trimmed content
TextAnnotationTrimmed(pos, value, pg, timestamp) ==
    [id |-> AnnId(timestamp), type |-> "text", page |-> pg,
     bbox |-> [x |-> pos.x, y |-> pos.y, w |-> defaultTextW, h |-> defaultTextH],
     attributes |-> [text |-> Trim(value), fontSize |-> Num(defaultFontSize),
                     color |-> baseColor],
     createdAt |-> timestamp]

TextAnnotation(pos, value, pg, timestamp) ==
    [id |-> AnnId(timestamp), type |-> "text", page |-> pg,
     bbox |-> [x |-> pos.x, y |-> pos.y, w |-> defaultTextW, h |-> defaultTextH],
     attributes |-> [text |-> value, fontSize |-> Num(defaultFontSize), color |-> baseColor],
     createdAt |-> timestamp]

\* ------------------------------------------------------------------------
\* Geometry helpers
\* ------------------------------------------------------------------------
isPointInBbox(point, bbox) ==
    /\ point.x >= bbox.x /\ point.x <= bbox.x + bbox.w
    /\ point.y >= bbox.y /\ point.y <= bbox.y + bbox.h

handleSize == 8

NoHandle == "none"

\* an enumeration that tries the edge handles before the corner handles
HandleOrderEdgesFirst == <<"n", "s", "e", "w", "nw", "ne", "sw", "se">>

\* the keys of `handles` in Object.entries order
HandleOrder == <<"nw", "ne", "sw", "se", "n", "s", "e", "w">>

\* the handle centres, in doubled coordinates (w / 2 and h / 2 may be halves)
HandleCentre2(key, bbox) ==
    CASE key = "nw" -> Pt(2 * bbox.x, 2 * bbox.y)
      [] key = "ne" -> Pt(2 * (bbox.x + bbox.w), 2 * bbox.y)
      [] key = "sw" -> Pt(2 * bbox.x, 2 * (bbox.y + bbox.h))
      [] key = "se" -> Pt(2 * (bbox.x + bbox.w), 2 * (bbox.y + bbox.h))
      [] key = "n" -> Pt(2 * bbox.x + bbox.w, 2 * bbox.y)
      [] key = "s" -> Pt(2 * bbox.x + bbox.w, 2 * (bbox.y + bbox.h))
      [] key = "e" -> Pt(2 * (bbox.x + bbox.w), 2 * bbox.y + bbox.h)
      [] key = "w" -> Pt(2 * bbox.x, 2 * bbox.y + bbox.h)

OnHandle(point, key, bbox) ==
    /\ Abs(2 * point.x - HandleCentre2(key, bbox).x) <= 2 * handleSize
    /\ Abs(2 * point.y - HandleCentre2(key, bbox).y) <= 2 * handleSize

getResizeHandleAtPoint(point, bbox) ==
    IF \E i \in DOMAIN HandleOrder : OnHandle(point, HandleOrder[i], bbox)
    THEN LET i == CHOOSE j \in DOMAIN HandleOrder :
                     /\ OnHandle(point, HandleOrder[j], bbox)
                     /\ \A k \in 1..(j - 1) : ~OnHandle(point, HandleOrder[k], bbox)
         IN HandleOrder[i]
    ELSE NoHandle

\* resizeHandle.includes(c)
HandleChars ==
    [nw |-> <<"n", "w">>, ne |-> <<"n", "e">>, sw |-> <<"s", "w">>, se |-> <<"s", "e">>,
     n |-> <<"n">>, s |-> <<"s">>, e |-> <<"e">>, w |-> <<"w">>]

Includes(handle, c) == \E i \in DOMAIN HandleChars[handle] : HandleChars[handle][i] = c

\* ------------------------------------------------------------------------
\* State of the DrawingCanvas component
\* ------------------------------------------------------------------------
VARIABLES
    selectedTool,          \* prop: the active tool, controlled from outside
    page,                  \* prop: the current page number
    now,                   \* the last value that Date.now() returned
    isDrawing, startPoint, pathPoints,
    showTextInput, textPosition, textValue,
    storedAnnotations,
    selectedAnnotationId,
    isMoving, isResizing, resizeHandle, moveStartPoint,
    emitted,               \* the records the last step passed to onAnnotationCreate
    issued,                \* history: the ids assigned so far, in creation order
    press,                 \* history: the gesture the last pointer-down began and
                           \* no pointer-up has ended: the branch the pointer-down
                           \* took (kind), the tool and the point of the pointer-down
                           \* (tool, pt), the annotation that was selected when a
                           \* move or a deselection began (ann), the position of
                           \* the last pointer event (last) and the number of
                           \* pointer-moves that edited (n)
    spent,                 \* history: the inputs counted against MaxInputs
    probe                  \* history: the last pointer-down of a hit-testing run:
                           \* its point (pt), the selection it left (after),
                           \* whether one pointer-up and nothing else followed it
                           \* (up), and, when it repeated the point of the
                           \* pointer-down before that pointer-up, the selection
                           \* which that earlier pointer-down had left (first);
                           \* of a freehand run: the points of the last pointer-down
                           \* made with the freehand tool and of the pointer-moves
                           \* since (trail)
VARIABLES
    paginationPage,        \* PdfPagination: the state cell page
    numPages,              \* the page count the parent passes to PdfPagination
    notified,              \* the pages the last step passed to onPageChange
    onlyPresses,           \* history: nothing but Prev/Next presses since mounting
    toolbar,               \* which component renders the tool buttons
    pressedTools           \* history: the tools of the buttons pressed, in order
VARIABLES
    url,                   \* PdfViewer: the url prop
    loading,               \* PdfViewer: state cell loading
    error,                 \* PdfViewer: state cell error (None for null)
    pdfDoc,                \* PdfViewer: state cell pdfDoc (None for null)
    loads,                 \* the runs of loadPdf in flight, each with its cancelled flag
    renders,               \* the runs of renderPage in flight, each with its cancelled flag
    loadCalls,             \* history: the calls of onLoadSuccess
    started                \* history: the number of loads started

\* the state of the drawing canvas
canvasVars == <<selectedTool, page, now, isDrawing, startPoint, pathPoints,
                showTextInput, textPosition, textValue, storedAnnotations,
                selectedAnnotationId, isMoving, isResizing, resizeHandle, moveStartPoint,
                emitted, issued, press, spent>>

\* the state of the pagination control and of the toolbar
controlsVars == <<paginationPage, numPages, notified, onlyPresses, toolbar, pressedTools>>

\* the state of the document viewer
viewerVars == <<url, loading, error, pdfDoc, loads, renders, loadCalls, started>>

vars == <<canvasVars, probe, controlsVars, viewerVars>>

\* what the events of the drawing canvas leave alone
elsewhere == <<probe, controlsVars, viewerVars>>

drawVars == <<isDrawing, startPoint, pathPoints>>

textVars == <<showTextInput, textPosition, textValue>>

selVars == <<selectedAnnotationId, isMoving, isResizing, resizeHandle, moveStartPoint>>

propVars == <<selectedTool, page>>

\* one of the three gestures is in progress
GestureActive == isDrawing \/ isMoving \/ isResizing

\* one more input counted against MaxInputs
Spend == spent < MaxInputs /\ spent' = spent + 1

\* no gesture in progress
NoPress == [kind |-> "none", tool |-> NoTool, pt |-> None, last |-> None, ann |-> None,
            n |-> 0]

\* no pointer-down of a hit-testing run yet
NoProbe == [pt |-> None, after |-> None, up |-> FALSE, first |-> None, trail |-> << >>]

\* the controls around the canvas, not in use
ControlsIdle ==
    /\ paginationPage = FirstPage
    /\ numPages = 1
    /\ notified = << >>
    /\ onlyPresses = TRUE
    /\ toolbar = "DrawingToolbar"
    /\ pressedTools = << >>

\* no document chosen, the viewer not mounted
ViewerIdle ==
    /\ url = ""
    /\ loading = TRUE
    /\ error = None
    /\ pdfDoc = None
    /\ loads = << >>
    /\ renders = << >>
    /\ loadCalls = << >>
    /\ started = 0

\* the component right after mounting, with the props the parent passes
Init ==
    /\ selectedTool \in Tools
    /\ page = FirstPage
    /\ now = 0
    /\ isDrawing = FALSE
    /\ startPoint = None
    /\ pathPoints = << >>
    /\ showTextInput = FALSE
    /\ textPosition = None
    /\ textValue = << >>
    /\ storedAnnotations = << >>
    /\ selectedAnnotationId = None
    /\ isMoving = FALSE
    /\ isResizing = FALSE
    /\ resizeHandle = NoHandle
    /\ moveStartPoint = None
    /\ emitted = << >>
    /\ issued = << >>
    /\ press = NoPress
    /\ spent = 0
    /\ probe = NoProbe
    /\ ControlsIdle
    /\ ViewerIdle

\* ------------------------------------------------------------------------
\* Editing one annotation
\* ------------------------------------------------------------------------
\* a move that stamps the annotation it maps anew
MoveAnnRestamped(ann, dx, dy) ==
    [ann EXCEPT
        !.bbox = [@ EXCEPT !.x = @ + dx, !.y = @ + dy],
        !.createdAt = @ + 1]

\* a move of the bbox that leaves the shape details behind
MoveAnnBboxOnly(ann, dx, dy) ==
    [ann EXCEPT !.bbox = [@ EXCEPT !.x = @ + dx, !.y = @ + dy]]

\* the moving branch of handleMouseMove, for the annotation it maps
MoveAnn(ann, dx, dy) ==
    [ann EXCEPT
        !.bbox = [@ EXCEPT !.x = @ + dx, !.y = @ + dy],
        !.attributes =
            IF ann.type = "line" THEN
                [@ EXCEPT !.startX = AddInt(@, dx), !.startY = AddInt(@, dy),
                          !.endX = AddInt(@, dx), !.endY = AddInt(@, dy)]
            ELSE IF ann.type = "path" THEN
                [@ EXCEPT !.points = [i \in DOMAIN @ |->
                                         [x |-> AddInt(@[i].x, dx), y |-> AddInt(@[i].y, dy)]]]
            ELSE @]

minSize == 5

minFontSize == 8

\* an edit whose west handles shift x without giving the width back
HandleEditWestShiftOnly(oldBbox, handle, dx, dy) ==
    LET b1 == IF Includes(handle, "e") THEN [oldBbox EXCEPT !.w = @ + dx] ELSE oldBbox
        b2 == IF Includes(handle, "w") THEN [b1 EXCEPT !.x = @ + dx] ELSE b1
        b3 == IF Includes(handle, "s") THEN [b2 EXCEPT !.h = @ + dy] ELSE b2
        b4 == IF Includes(handle, "n") THEN [b3 EXCEPT !.y = @ + dy, !.h = @ - dy] ELSE b3
    IN b4

\* the bbox edit of the resizing branch, before the clamp
HandleEdit(oldBbox, handle, dx, dy) ==
    LET b1 == IF Includes(handle, "e") THEN [oldBbox EXCEPT !.w = @ + dx] ELSE oldBbox
        b2 == IF Includes(handle, "w") THEN [b1 EXCEPT !.x = @ + dx, !.w = @ - dx] ELSE b1
        b3 == IF Includes(handle, "s") THEN [b2 EXCEPT !.h = @ + dy] ELSE b2
        b4 == IF Includes(handle, "n") THEN [b3 EXCEPT !.y = @ + dy, !.h = @ - dy] ELSE b3
    IN b4

\* no minimum size
ClampBboxOff(b) == b

\* a clamp of the width alone
ClampWidthOnly(b) == [b EXCEPT !.w = IF @ < minSize THEN minSize ELSE @]

\* the minimum-size clamp
ClampBbox(b) ==
    [b EXCEPT !.w = IF @ < minSize THEN minSize ELSE @,
              !.h = IF @ < minSize THEN minSize ELSE @]

ResizeBbox(oldBbox, handle, dx, dy) == ClampBbox(HandleEdit(oldBbox, handle, dx, dy))

\* (pos - oldOrigin) * scale + newOrigin
Rescale(pos, oldOrigin, scale, newOrigin) == AddInt(Mul(AddInt(pos, -oldOrigin), scale), newOrigin)

\* the type-specific attributes after a resize from oldBbox to newBbox
ResizeAttributes(ann, oldBbox, newBbox) ==
    LET scaleX == DivInt(newBbox.w, oldBbox.w)
        scaleY == DivInt(newBbox.h, oldBbox.h)
    IN IF ann.type = "line" THEN
           [ann.attributes EXCEPT
               !.startX = Rescale(@, oldBbox.x, scaleX, newBbox.x),
               !.startY = Rescale(@, oldBbox.y, scaleY, newBbox.y),
               !.endX = Rescale(@, oldBbox.x, scaleX, newBbox.x),
               !.endY = Rescale(@, oldBbox.y, scaleY, newBbox.y)]
       ELSE IF ann.type = "path" THEN
           [ann.attributes EXCEPT
               !.points = [i \in DOMAIN @ |->
                              [x |-> Rescale(@[i].x, oldBbox.x, scaleX, newBbox.x),
                               y |-> Rescale(@[i].y, oldBbox.y, scaleY, newBbox.y)]]]
       ELSE IF ann.type = "text" THEN
           [ann.attributes EXCEPT
               !.fontSize = MathMax(Num(minFontSize),
                                    MathRound(Mul(OrElse(@, Num(defaultFontSize)),
                                                  MathMin(scaleX, scaleY))))]
       ELSE ann.attributes

\* the resizing branch of handleMouseMove, for the annotation it maps
ResizeAnn(ann, handle, dx, dy) ==
    LET newBbox == ResizeBbox(ann.bbox, handle, dx, dy)
    IN [ann EXCEPT !.bbox = newBbox,
                   !.attributes = ResizeAttributes(ann, ann.bbox, newBbox)]

\* storedAnnotations.find(ann => ann.id === id): the index of the first match, 0 if none
FindIndex(anns, id) ==
    IF \E i \in DOMAIN anns : anns[i].id = id
    THEN CHOOSE i \in DOMAIN anns :
             /\ anns[i].id = id
             /\ \A k \in 1..(i - 1) : anns[k].id # id
    ELSE 0

\* the index of the last annotation whose bbox contains the point, 0 if none
HitIndex(anns, point) ==
    IF \E i \in DOMAIN anns : isPointInBbox(point, anns[i].bbox)
    THEN CHOOSE i \in DOMAIN anns :
             /\ isPointInBbox(point, anns[i].bbox)
             /\ \A k \in (i + 1)..Len(anns) : ~isPointInBbox(point, anns[k].bbox)
    ELSE 0

\* prev.filter(ann => ann.id !== id)
RECURSIVE FilterOut(_, _)
FilterOut(anns, id) ==
    IF anns = << >> THEN << >>
    ELSE IF Head(anns).id = id THEN FilterOut(Tail(anns), id)
    ELSE <<Head(anns)>> \o FilterOut(Tail(anns), id)

\* ------------------------------------------------------------------------
\* Pointer handlers
\* ------------------------------------------------------------------------
\* the index of the selected annotation, 0 if nothing is selected or found
SelectedIndex ==
    IF selectedAnnotationId = None THEN 0
    ELSE FindIndex(storedAnnotations, selectedAnnotationId[1])

\* a pointer-down whose last case leaves the selection alone
DownBranchNoDeselect(point) ==
    IF selectedTool = NoTool THEN
        IF SelectedIndex # 0
           /\ getResizeHandleAtPoint(point, storedAnnotations[SelectedIndex].bbox) # NoHandle
            THEN "resize"
        ELSE IF SelectedIndex # 0
                /\ isPointInBbox(point, storedAnnotations[SelectedIndex].bbox)
            THEN "move"
        ELSE IF HitIndex(storedAnnotations, point) # 0
            THEN "select"
        ELSE "text"
    ELSE IF selectedTool = "text" THEN "text"
    ELSE "draw"

\* a pointer-down that drops the selection when it lands inside it
DownBranchToggle(point) ==
    IF selectedTool = NoTool THEN
        IF SelectedIndex # 0
           /\ getResizeHandleAtPoint(point, storedAnnotations[SelectedIndex].bbox) # NoHandle
            THEN "resize"
        ELSE IF SelectedIndex # 0
                /\ isPointInBbox(point, storedAnnotations[SelectedIndex].bbox)
            THEN "deselect"
        ELSE IF HitIndex(storedAnnotations, point) # 0
            THEN "select"
        ELSE "deselect"
    ELSE IF selectedTool = "text" THEN "text"
    ELSE "draw"

\* the branch handleMouseDown takes at a point
DownBranch(point) ==
    IF selectedTool = NoTool THEN
        IF SelectedIndex # 0
           /\ getResizeHandleAtPoint(point, storedAnnotations[SelectedIndex].bbox) # NoHandle
            THEN "resize"
        ELSE IF SelectedIndex # 0
                /\ isPointInBbox(point, storedAnnotations[SelectedIndex].bbox)
            THEN "move"
        ELSE IF HitIndex(storedAnnotations, point) # 0
            THEN "select"
        ELSE "deselect"
    ELSE IF selectedTool = "text" THEN "text"
    ELSE "draw"

handleMouseDown(point) ==
    LET branch == DownBranch(point)
    IN /\ IF press.kind = "none" THEN UNCHANGED spent ELSE Spend
       /\ press' = IF branch = "text" THEN NoPress ELSE
                   [kind |-> branch, tool |-> selectedTool,
                    pt |-> IF branch = "select" THEN None ELSE Some(point),
                    last |-> IF branch \in {"move", "resize"} THEN Some(point) ELSE None,
                    ann |-> IF branch \in {"move", "deselect"} /\ SelectedIndex # 0
                            THEN Some(storedAnnotations[SelectedIndex]) ELSE None,
                    n |-> 0]
       /\ CASE branch = "resize" ->
                 /\ isResizing' = TRUE
                 /\ resizeHandle' =
                        getResizeHandleAtPoint(point, storedAnnotations[SelectedIndex].bbox)
                 /\ startPoint' = Some(point)
                 /\ UNCHANGED <<isDrawing, pathPoints, selectedAnnotationId,
                                isMoving, moveStartPoint>>
            [] branch = "move" ->
                 /\ isMoving' = TRUE
                 /\ moveStartPoint' = Some(point)
                 /\ UNCHANGED <<drawVars, selectedAnnotationId, isResizing, resizeHandle>>
            [] branch = "select" ->
                 /\ selectedAnnotationId' =
                        Some(storedAnnotations[HitIndex(storedAnnotations, point)].id)
                 /\ UNCHANGED <<drawVars, isMoving, isResizing, resizeHandle, moveStartPoint>>
            [] branch = "deselect" ->
                 /\ selectedAnnotationId' = None
                 /\ UNCHANGED <<drawVars, isMoving, isResizing, resizeHandle, moveStartPoint>>
            [] branch = "text" ->
                 UNCHANGED <<drawVars, selVars>>
            [] branch = "draw" ->
                 /\ isDrawing' = TRUE
                 /\ startPoint' = Some(point)
                 /\ pathPoints' = IF selectedTool = "freehand" THEN <<point>> ELSE pathPoints
                 /\ UNCHANGED selVars
       /\ emitted' = << >>
       /\ UNCHANGED <<propVars, now, textVars, storedAnnotations, issued>>

\* the branch handleMouseMove takes
MoveBranch ==
    IF isMoving /\ selectedAnnotationId # None /\ moveStartPoint # None THEN "move"
    ELSE IF isResizing /\ selectedAnnotationId # None /\ startPoint # None
            /\ resizeHandle # NoHandle THEN "resize"
    ELSE IF ~isDrawing \/ selectedTool = NoTool THEN "idle"
    ELSE "draw"

handleMouseMove(point) ==
    /\ press' = IF press.kind \in {"move", "resize"}
                THEN [press EXCEPT !.last = Some(point),
                                   !.n = IF MoveBranch \in {"move", "resize"}
                                         THEN @ + 1 ELSE @]
                ELSE press
    /\ CASE MoveBranch = "move" ->
              LET dx == point.x - moveStartPoint[1].x
                  dy == point.y - moveStartPoint[1].y
              IN /\ Spend
                 /\ storedAnnotations' =
                        [i \in DOMAIN storedAnnotations |->
                            IF storedAnnotations[i].id = selectedAnnotationId[1]
                            THEN MoveAnn(storedAnnotations[i], dx, dy)
                            ELSE storedAnnotations[i]]
                 /\ moveStartPoint' = Some(point)
                 /\ UNCHANGED <<drawVars, selectedAnnotationId, isMoving, isResizing,
                                resizeHandle>>
         [] MoveBranch = "resize" ->
              LET dx == point.x - startPoint[1].x
                  dy == point.y - startPoint[1].y
              IN /\ Spend
                 /\ storedAnnotations' =
                        [i \in DOMAIN storedAnnotations |->
                            IF storedAnnotations[i].id = selectedAnnotationId[1]
                            THEN ResizeAnn(storedAnnotations[i], resizeHandle, dx, dy)
                            ELSE storedAnnotations[i]]
                 /\ startPoint' = Some(point)
                 /\ UNCHANGED <<isDrawing, pathPoints, selVars>>
         [] MoveBranch = "idle" ->
              UNCHANGED <<drawVars, selVars, storedAnnotations, spent>>
         [] MoveBranch = "draw" ->
              /\ IF selectedTool = "freehand"
                 THEN /\ Spend
                      /\ pathPoints' = Append(pathPoints, point)
                 ELSE UNCHANGED <<pathPoints, spent>>
              /\ UNCHANGED <<isDrawing, startPoint, selVars, storedAnnotations>>
    /\ emitted' = << >>
    /\ UNCHANGED <<propVars, now, textVars, issued>>

\* the branch handleMouseUp takes
UpBranch ==
    IF isMoving THEN "move"
    ELSE IF isResizing THEN "resize"
    ELSE IF ~isDrawing \/ startPoint = None THEN "idle"
    ELSE "draw"

handleMouseUp(point, timestamp) ==
    /\ press' = NoPress
    /\ CASE UpBranch = "move" ->
              /\ isMoving' = FALSE
              /\ moveStartPoint' = None
              /\ emitted' = << >>
              /\ UNCHANGED <<drawVars, selectedAnnotationId, isResizing, resizeHandle,
                             storedAnnotations, issued, now, spent>>
         [] UpBranch = "resize" ->
              /\ isResizing' = FALSE
              /\ resizeHandle' = NoHandle
              /\ startPoint' = None
              /\ emitted' = << >>
              /\ UNCHANGED <<isDrawing, pathPoints, selectedAnnotationId,
                             isMoving, moveStartPoint, storedAnnotations, issued, now,
                             spent>>
         [] UpBranch = "idle" ->
              /\ emitted' = << >>
              /\ UNCHANGED <<drawVars, selVars, storedAnnotations, issued, now, spent>>
         [] UpBranch = "draw" ->
              LET annotation == createAnnotation(selectedTool, startPoint[1], point,
                                                 pathPoints, page, timestamp)
              IN /\ IF annotation # None
                    THEN /\ Len(issued) < MaxCommits
                         /\ Spend
                         /\ storedAnnotations' = Append(storedAnnotations, annotation[1])
                         /\ emitted' = <<annotation[1]>>
                         /\ issued' = Append(issued, annotation[1].id)
                         /\ now' = timestamp
                    ELSE /\ emitted' = << >>
                         /\ UNCHANGED <<storedAnnotations, issued, now, spent>>
                 /\ pathPoints' = IF selectedTool = "freehand" THEN << >> ELSE pathPoints
                 /\ isDrawing' = FALSE
                 /\ startPoint' = None
                 /\ UNCHANGED selVars
    /\ UNCHANGED <<propVars, textVars>>

handleCanvasClick(point) ==
    /\ IF selectedTool = "text" /\ ~showTextInput
       THEN /\ Spend
            /\ textPosition' = Some(point)
            /\ showTextInput' = TRUE
            /\ textValue' = << >>
       ELSE UNCHANGED <<textVars, spent>>
    /\ emitted' = << >>
    /\ UNCHANGED <<propVars, now, drawVars, selVars, storedAnnotations, issued, press>>

\* ------------------------------------------------------------------------
\* Text entry and keyboard handlers
\* ------------------------------------------------------------------------
\* the text input element is rendered
TextInputShown == showTextInput /\ textPosition # None

\* onChange of the text input
handleTextChange(value) ==
    /\ TextInputShown
    /\ textValue' = value
    /\ emitted' = << >>
    /\ UNCHANGED <<propVars, now, drawVars, selVars, showTextInput, textPosition,
                   storedAnnotations, issued, press, spent>>

handleTextKeyDown(key, timestamp) ==
    /\ IF key = "Enter" /\ Trim(textValue) # << >> /\ textPosition # None
       THEN /\ Len(issued) < MaxCommits
            /\ Spend
            /\ LET annotation == TextAnnotation(textPosition[1], textValue, page, timestamp)
               IN /\ storedAnnotations' = Append(storedAnnotations, annotation)
                  /\ emitted' = <<annotation>>
                  /\ issued' = Append(issued, annotation.id)
            /\ now' = timestamp
            /\ showTextInput' = FALSE
            /\ textValue' = << >>
            /\ textPosition' = None
       ELSE IF key = "Escape"
       THEN /\ showTextInput' = FALSE
            /\ textValue' = << >>
            /\ textPosition' = None
            /\ emitted' = << >>
            /\ UNCHANGED <<storedAnnotations, issued, now, spent>>
       ELSE /\ emitted' = << >>
            /\ UNCHANGED <<textVars, storedAnnotations, issued, now, spent>>
    /\ UNCHANGED <<propVars, drawVars, selVars, press>>

\* the document keydown listener
handleKeyDown(key) ==
    /\ IF key = "Delete" /\ selectedAnnotationId # None
       THEN /\ storedAnnotations' = FilterOut(storedAnnotations, selectedAnnotationId[1])
            /\ selectedAnnotationId' = None
       ELSE UNCHANGED <<storedAnnotations, selectedAnnotationId>>
    /\ emitted' = << >>
    /\ UNCHANGED <<propVars, now, drawVars, textVars, isMoving, isResizing, resizeHandle,
                   moveStartPoint, issued, press, spent>>

\* onClick of the delete button, which is rendered while something is selected
handleDelete ==
    /\ selectedAnnotationId # None
    /\ storedAnnotations' = FilterOut(storedAnnotations, selectedAnnotationId[1])
    /\ selectedAnnotationId' = None
    /\ emitted' = << >>
    /\ UNCHANGED <<propVars, now, drawVars, textVars, isMoving, isResizing, resizeHandle,
                   moveStartPoint, issued, press, spent>>

\* a key pressed inside the text input: its onKeyDown runs, then the event
\* bubbles to the document listener; each of the two ignores the other's keys
KeyInTextInput(key, timestamp) ==
    /\ TextInputShown
    /\ IF key = "Delete" THEN handleKeyDown(key) ELSE handleTextKeyDown(key, timestamp)

\* a key pressed with the focus outside the text input
KeyInDocument(key) == handleKeyDown(key)

\* ------------------------------------------------------------------------
\* Environment: the props and the clock
\* ------------------------------------------------------------------------
SelectTool(tool) ==
    /\ tool # selectedTool
    /\ IF tool = NoTool /\ ~GestureActive THEN UNCHANGED spent ELSE Spend
    /\ selectedTool' = tool
    /\ emitted' = << >>
    /\ UNCHANGED <<page, now, drawVars, textVars, selVars, storedAnnotations, issued,
                   press>>

SetPage(pg) ==
    /\ pg # page
    /\ Spend
    /\ page' = pg
    /\ emitted' = << >>
    /\ UNCHANGED <<selectedTool, now, drawVars, textVars, selVars, storedAnnotations,
                   issued, press>>

\* the values the next Date.now() can return: no or some time has passed
\* since the previous call; only the order of the reads matters, so the first
\* one returns the origin
ClockReads == IF issued = << >> THEN {now} ELSE {now, now + 1}

MouseDown ==
    /\ \E point \in Points : handleMouseDown(point)
    /\ UNCHANGED elsewhere

MouseMove ==
    /\ \E point \in Points : handleMouseMove(point)
    /\ UNCHANGED elsewhere

MouseUp ==
    /\ \E point \in Points :
           \E timestamp \in (IF UpBranch = "draw" THEN ClockReads ELSE {now}) :
               handleMouseUp(point, timestamp)
    /\ UNCHANGED elsewhere

CanvasClick ==
    /\ \E point \in ClickPoints : handleCanvasClick(point)
    /\ UNCHANGED elsewhere

TextChange ==
    /\ \E value \in TextValues : handleTextChange(value)
    /\ UNCHANGED elsewhere

TextKey ==
    /\ \E key \in Keys :
           \E timestamp \in (IF key = "Enter" THEN ClockReads ELSE {now}) :
               KeyInTextInput(key, timestamp)
    /\ UNCHANGED elsewhere

DocumentKey ==
    /\ \E key \in Keys : KeyInDocument(key)
    /\ UNCHANGED elsewhere

DeleteButton == handleDelete /\ UNCHANGED elsewhere

ToolChange ==
    /\ \E tool \in Tools : SelectTool(tool)
    /\ UNCHANGED elsewhere

PageChange ==
    /\ \E pg \in Pages : SetPage(pg)
    /\ UNCHANGED elsewhere

Next ==
    \/ MouseDown
    \/ MouseMove
    \/ MouseUp
    \/ CanvasClick
    \/ TextChange
    \/ TextKey
    \/ DocumentKey
    \/ DeleteButton
    \/ ToolChange
    \/ PageChange

Spec == Init /\ [][Next]_vars

\* ------------------------------------------------------------------------
\* Hit testing on its own: the component in select mode over the collections
\* that one or two committed drags leave, with any of their ids or none
\* selected; only pointer-downs and pointer-ups arrive
\* ------------------------------------------------------------------------
\* the collections of up to MaxStored annotations, each the product of the
\* factory for a drag between two pointer positions, with the clock reads of
\* their commits in order
RECURSIVE DragCollections(_)
DragCollections(n) ==
    IF n = 0 THEN {<< >>}
    ELSE LET shorter == DragCollections(n - 1)
         IN shorter \cup
            {anns \o createAnnotation("rect", start, end, << >>, FirstPage, timestamp) :
                 anns \in {c \in shorter : Len(c) = n - 1},
                 start \in Points, end \in Points,
                 timestamp \in 0..(n - 1)}

\* the commits of a collection read the clock in order, at most one tick apart
ClockOrdered(anns) ==
    /\ anns # << >> => anns[1].createdAt = 0
    /\ \A i \in 1..(Len(anns) - 1) :
           anns[i + 1].createdAt \in {anns[i].createdAt, anns[i].createdAt + 1}

HitInit ==
    /\ selectedTool = NoTool
    /\ page = FirstPage
    /\ storedAnnotations \in {c \in DragCollections(MaxStored) : ClockOrdered(c)}
    /\ issued = [i \in DOMAIN storedAnnotations |-> storedAnnotations[i].id]
    /\ now = IF storedAnnotations = << >> THEN 0
             ELSE storedAnnotations[Len(storedAnnotations)].createdAt
    /\ selectedAnnotationId \in
           {None} \cup {Some(storedAnnotations[i].id) : i \in DOMAIN storedAnnotations}
    /\ isDrawing = FALSE
    /\ startPoint = None
    /\ pathPoints = << >>
    /\ showTextInput = FALSE
    /\ textPosition = None
    /\ textValue = << >>
    /\ isMoving = FALSE
    /\ isResizing = FALSE
    /\ resizeHandle = NoHandle
    /\ moveStartPoint = None
    /\ emitted = << >>
    /\ press = NoPress
    /\ spent = 0
    /\ probe = NoProbe
    /\ ControlsIdle
    /\ ViewerIdle

\* a pointer-down; it repeats the previous one when it comes at the same
\* point after one pointer-up and nothing else
HitDown ==
    \E point \in Points :
        /\ handleMouseDown(point)
        /\ probe' = [pt |-> Some(point),
                     after |-> Some(selectedAnnotationId'),
                     up |-> FALSE,
                     first |-> IF probe.up /\ probe.pt = Some(point)
                               THEN probe.after ELSE None,
                     trail |-> << >>]
        /\ UNCHANGED <<controlsVars, viewerVars>>

HitUp ==
    \E point \in Points :
        /\ handleMouseUp(point, now)
        /\ probe' = IF probe.pt # None /\ ~probe.up
                    THEN [probe EXCEPT !.up = TRUE, !.first = None]
                    ELSE NoProbe
        /\ UNCHANGED <<controlsVars, viewerVars>>

HitNext ==
    \/ HitDown
    \/ HitUp

SpecHit == HitInit /\ [][HitNext]_vars

\* ------------------------------------------------------------------------
\* Handle testing on its own: the component in select mode with one stored
\* rectangle, selected, and presses on and around it, each released before
\* the next
\* ------------------------------------------------------------------------
\* the coordinates of the drag that made the rectangle: extents 0, 6, 15 and
\* 21, so that boxes narrower and wider than two handle zones and boxes whose
\* edge midpoints fall on half pixels occur
CornerCoords == {20, 26, 41}

\* the coordinates of the presses: up to the handle zone around every box, and
\* one pixel beyond it
ProbeCoords == 11..50

ProbePoints == {Pt(x, y) : x \in ProbeCoords, y \in ProbeCoords}

HandleInit ==
    /\ selectedTool = NoTool
    /\ page = FirstPage
    /\ now = 0
    /\ \E start \in {Pt(x, y) : x \in CornerCoords, y \in CornerCoords} :
       \E end \in {Pt(x, y) : x \in CornerCoords, y \in CornerCoords} :
           storedAnnotations = createAnnotation("rect", start, end, << >>, FirstPage, now)
    /\ issued = <<storedAnnotations[1].id>>
    /\ selectedAnnotationId = Some(storedAnnotations[1].id)
    /\ isDrawing = FALSE
    /\ startPoint = None
    /\ pathPoints = << >>
    /\ showTextInput = FALSE
    /\ textPosition = None
    /\ textValue = << >>
    /\ isMoving = FALSE
    /\ isResizing = FALSE
    /\ resizeHandle = NoHandle
    /\ moveStartPoint = None
    /\ emitted = << >>
    /\ press = NoPress
    /\ spent = 0
    /\ probe = NoProbe
    /\ ControlsIdle
    /\ ViewerIdle

\* a press; probe keeps its point until the release
HandleDown ==
    /\ probe.pt = None
    /\ \E point \in ProbePoints :
           /\ handleMouseDown(point)
           /\ probe' = [NoProbe EXCEPT !.pt = Some(point)]
    /\ UNCHANGED <<controlsVars, viewerVars>>

\* the release of the press, where it was made
HandleUp ==
    /\ probe.pt # None
    /\ handleMouseUp(probe.pt[1], now)
    /\ probe' = NoProbe
    /\ UNCHANGED <<controlsVars, viewerVars>>

HandleNext ==
    \/ HandleDown
    \/ HandleUp

SpecHandle == HandleInit /\ [][HandleNext]_vars

\* ------------------------------------------------------------------------
\* Freehand drawing on its own: the component with the freehand tool, which
\* is put down and taken up again between gestures, so that the committed
\* paths can be selected, moved and resized
\* ------------------------------------------------------------------------
FreeInit ==
    /\ selectedTool = "freehand"
    /\ page = FirstPage
    /\ now = 0
    /\ isDrawing = FALSE
    /\ startPoint = None
    /\ pathPoints = << >>
    /\ showTextInput = FALSE
    /\ textPosition = None
    /\ textValue = << >>
    /\ storedAnnotations = << >>
    /\ selectedAnnotationId = None
    /\ isMoving = FALSE
    /\ isResizing = FALSE
    /\ resizeHandle = NoHandle
    /\ moveStartPoint = None
    /\ emitted = << >>
    /\ issued = << >>
    /\ press = NoPress
    /\ spent = 0
    /\ probe = NoProbe
    /\ ControlsIdle
    /\ ViewerIdle

FreeDown ==
    /\ \E point \in Points :
           /\ handleMouseDown(point)
           /\ probe' = [NoProbe EXCEPT !.trail = IF selectedTool = "freehand"
                                                 THEN <<point>> ELSE << >>]
    /\ UNCHANGED <<controlsVars, viewerVars>>

FreeMove ==
    /\ \E point \in Points :
           /\ handleMouseMove(point)
           /\ probe' = [probe EXCEPT !.trail = IF @ = << >> THEN @ ELSE Append(@, point)]
    /\ UNCHANGED <<controlsVars, viewerVars>>

FreeUp ==
    /\ \E point \in Points :
           \E timestamp \in (IF UpBranch = "draw" THEN ClockReads ELSE {now}) :
               handleMouseUp(point, timestamp)
    /\ probe' = NoProbe
    /\ UNCHANGED <<controlsVars, viewerVars>>

\* the freehand tool is put down or taken up while no gesture is in progress
FreeTool ==
    /\ ~GestureActive
    /\ press.kind = "none"
    /\ \E tool \in {"freehand", NoTool} : SelectTool(tool)
    /\ UNCHANGED elsewhere

FreeNext ==
    \/ FreeDown
    \/ FreeMove
    \/ FreeUp
    \/ FreeTool

SpecFreehand == FreeInit /\ [][FreeNext]_vars

\* ------------------------------------------------------------------------
\* Resizing a text annotation on its own: the component in select mode with
\* one committed text annotation, selected, and pointer gestures on it
\* ------------------------------------------------------------------------
ResizeInit ==
    /\ selectedTool = NoTool
    /\ page = FirstPage
    /\ now = 0
    /\ \E pos \in ClickPoints, value \in TextValues :
           /\ Trim(value) # << >>
           /\ storedAnnotations = <<TextAnnotation(pos, value, FirstPage, now)>>
    /\ issued = <<storedAnnotations[1].id>>
    /\ selectedAnnotationId = Some(storedAnnotations[1].id)
    /\ isDrawing = FALSE
    /\ startPoint = None
    /\ pathPoints = << >>
    /\ showTextInput = FALSE
    /\ textPosition = None
    /\ textValue = << >>
    /\ isMoving = FALSE
    /\ isResizing = FALSE
    /\ resizeHandle = NoHandle
    /\ moveStartPoint = None
    /\ emitted = << >>
    /\ press = NoPress
    /\ spent = 0
    /\ probe = NoProbe
    /\ ControlsIdle
    /\ ViewerIdle

ResizeDown ==
    /\ \E point \in Points : handleMouseDown(point)
    /\ UNCHANGED elsewhere

ResizeMove ==
    /\ \E point \in Points : handleMouseMove(point)
    /\ UNCHANGED elsewhere

ResizeUp ==
    /\ \E point \in Points : handleMouseUp(point, now)
    /\ UNCHANGED elsewhere

ResizeNext ==
    \/ ResizeDown
    \/ ResizeMove
    \/ ResizeUp

SpecResize == ResizeInit /\ [][ResizeNext]_vars

\* ------------------------------------------------------------------------
\* The controls around the canvas: the pagination control and the tool
\* buttons, with the parent's state they drive (current page, selected tool)
\* ------------------------------------------------------------------------
\* how many times React runs a state updater function: once, and twice in
\* development builds under StrictMode
UpdaterRuns == {1, 2}

\* the calls of a callback that n runs of an updater make
Calls(v, n) == [i \in 1..n |-> v]

\* goNext with the step left out
NextPageOfNoStep(p) == Min2(numPages, p)

\* np of goNext
NextPageOf(p) == Min2(numPages, p + 1)

\* np of goPrev
PrevPageOf(p) == Max2(1, p - 1)

\* disabled={page >= numPages}, disabled={page <= 1}
NextDisabled == paginationPage >= numPages
PrevDisabled == paginationPage <= 1

\* App: handlePageChange
handlePageChange(pg) == page' = pg

goNext(runs) ==
    /\ ~NextDisabled
    /\ paginationPage' = NextPageOf(paginationPage)
    /\ notified' = Calls(NextPageOf(paginationPage), runs)
    /\ handlePageChange(NextPageOf(paginationPage))
    /\ UNCHANGED <<numPages, onlyPresses, toolbar, pressedTools, selectedTool>>

goPrev(runs) ==
    /\ ~PrevDisabled
    /\ paginationPage' = PrevPageOf(paginationPage)
    /\ notified' = Calls(PrevPageOf(paginationPage), runs)
    /\ handlePageChange(PrevPageOf(paginationPage))
    /\ UNCHANGED <<numPages, onlyPresses, toolbar, pressedTools, selectedTool>>

\* App: handleLoadSuccess, the page count of a newly loaded document
handleLoadSuccess(pages) ==
    /\ pages # numPages
    /\ numPages' = pages
    /\ onlyPresses' = FALSE
    /\ notified' = << >>
    /\ UNCHANGED <<paginationPage, page, toolbar, pressedTools, selectedTool>>

\* the buttons of the toolbar: DrawingToolbar has a button for no tool,
\* DrawingOverlay has not
ToolButtons == IF toolbar = "DrawingToolbar" THEN Tools ELSE Tools \ {NoTool}

\* aria-pressed of the button of a tool
Pressed(tool) == selectedTool = tool

\* a tool selection in which a second press of a button releases it
handleToolSelectToggle(tool) ==
    selectedTool' = IF selectedTool = tool THEN NoTool ELSE tool

\* onToolSelect={setSelectedTool}; DrawingOverlay: handleToolSelect
handleToolSelect(tool) == selectedTool' = tool

ToolButtonPress(tool) ==
    /\ Len(pressedTools) < MaxPresses
    /\ handleToolSelect(tool)
    /\ pressedTools' = Append(pressedTools, tool)
    /\ notified' = << >>
    /\ UNCHANGED <<paginationPage, numPages, onlyPresses, toolbar, page>>

\* the parent right after mounting with a document of some page count shown,
\* the canvas untouched
ControlsInit ==
    /\ selectedTool = NoTool
    /\ page \in 1..MaxPages
    /\ numPages \in 1..MaxPages
    /\ page <= numPages
    /\ paginationPage = page
    /\ notified = << >>
    /\ onlyPresses = TRUE
    /\ toolbar \in {"DrawingToolbar", "DrawingOverlay"}
    /\ pressedTools = << >>
    /\ now = 0
    /\ isDrawing = FALSE
    /\ startPoint = None
    /\ pathPoints = << >>
    /\ showTextInput = FALSE
    /\ textPosition = None
    /\ textValue = << >>
    /\ storedAnnotations = << >>
    /\ selectedAnnotationId = None
    /\ isMoving = FALSE
    /\ isResizing = FALSE
    /\ resizeHandle = NoHandle
    /\ moveStartPoint = None
    /\ emitted = << >>
    /\ issued = << >>
    /\ press = NoPress
    /\ spent = 0
    /\ probe = NoProbe
    /\ ViewerIdle

\* what the controls leave alone
canvasState == <<now, drawVars, textVars, selVars, storedAnnotations, emitted, issued,
                 press, spent, probe, viewerVars>>

PressNext ==
    /\ \E runs \in UpdaterRuns : goNext(runs)
    /\ UNCHANGED canvasState

PressPrev ==
    /\ \E runs \in UpdaterRuns : goPrev(runs)
    /\ UNCHANGED canvasState

LoadSuccess ==
    /\ \E pages \in 1..MaxPages : handleLoadSuccess(pages)
    /\ UNCHANGED canvasState

PressTool ==
    /\ \E tool \in ToolButtons : ToolButtonPress(tool)
    /\ UNCHANGED canvasState

ControlsNext ==
    \/ PressNext
    \/ PressPrev
    \/ LoadSuccess
    \/ PressTool

SpecControls == ControlsInit /\ [][ControlsNext]_vars

\* ------------------------------------------------------------------------
\* The document viewer (PdfViewer). A step is the settling of a promise or a
\* change of props together with the state updates and the rendering that
\* follow it.
\* ------------------------------------------------------------------------
Urls == {"a.pdf", "b.pdf"}

\* what pdfjs rejects with: Error objects, with or without a message
Errors == {[name |-> "Error", message |-> "Network error"],
           [name |-> "Error", message |-> ""]}

NoContext == [name |-> "Error", message |-> "Canvas 2D context unavailable"]
InvalidPage == [name |-> "Error", message |-> "Invalid page request"]

\* String(err) of an Error object
ErrString(err) == IF err.message = "" THEN err.name
                  ELSE err.name \o ": " \o err.message

\* err?.message || String(err)
ErrorMessage(err) == IF err.message # "" THEN err.message ELSE ErrString(err)

\* the cleanup of an effect: cancelled = true in every run still in flight
Cancel(tasks) == [i \in DOMAIN tasks |-> [tasks[i] EXCEPT !.cancelled = TRUE]]

\* a run ends
Settled(tasks, i) == SubSeq(tasks, 1, i - 1) \o SubSeq(tasks, i + 1, Len(tasks))

\* a loadPdf that never notices that it was superseded
SupersededNever(task) == FALSE

\* if (cancelled) return
Superseded(task) == task.cancelled

\* {loading && ...}, {error && ...}
LoadingShown == loading
ErrorShown == error # None /\ error[1] # ""

\* a canvas that only hides while loading
CanvasDisplayWhileLoading == IF loading THEN "none" ELSE "block"

\* style display of the canvas
CanvasDisplay == IF loading \/ ErrorShown THEN "none" ELSE "block"

\* the load effect runs: the cleanup of the previous run, then loadPdf up to
\* its first await
loadPdf(u) ==
    /\ url' = u
    /\ loads' = Append(Cancel(loads), [url |-> u, cancelled |-> FALSE])
    /\ loading' = TRUE
    /\ error' = None
    /\ pdfDoc' = None
    /\ renders' = Cancel(renders)
    /\ started' = started + 1
    /\ UNCHANGED <<loadCalls, page>>

\* the render effect runs for a document: cleanup, then renderPage up to its
\* first await
renderPage(doc, pg) ==
    Append(Cancel(renders), [doc |-> doc, pg |-> pg, cancelled |-> FALSE, stage |-> "getPage"])

\* loadingTask.promise (or the import) settles for the i-th run in flight
loadPdfSettled(i, outcome) ==
    /\ loads' = Settled(loads, i)
    /\ IF Superseded(loads[i])
       THEN UNCHANGED <<pdfDoc, loading, error, loadCalls, renders>>
       ELSE IF outcome.ok
       THEN /\ pdfDoc' = Some([url |-> loads[i].url, numPages |-> outcome.numPages])
            /\ loadCalls' = Append(loadCalls, [url |-> loads[i].url, pages |-> outcome.numPages])
            /\ loading' = FALSE
            /\ renders' = renderPage(pdfDoc'[1], page)
            /\ UNCHANGED error
       ELSE /\ error' = Some(ErrorMessage(outcome.err))
            /\ loading' = FALSE
            /\ UNCHANGED <<pdfDoc, loadCalls, renders>>
    /\ UNCHANGED <<url, started, page>>

\* the catch of renderPage
renderFailed(task, err) ==
    /\ IF task.cancelled THEN UNCHANGED error
                         ELSE error' = Some(ErrorMessage(err))
    /\ UNCHANGED <<url, loading, pdfDoc, loads, loadCalls, started, page>>

\* pdfDoc.getPage(page) settles for the i-th run in flight; ctx is whether
\* the canvas gives a 2D context
getPageSettled(i, ctx) ==
    LET task == renders[i] IN
    IF task.pg > task.doc.numPages
    THEN /\ renders' = Settled(renders, i)
         /\ renderFailed(task, InvalidPage)
    ELSE IF task.cancelled
    THEN /\ renders' = Settled(renders, i)
         /\ UNCHANGED <<url, loading, error, pdfDoc, loads, loadCalls, started, page>>
    ELSE IF ~ctx
    THEN /\ renders' = Settled(renders, i)
         /\ renderFailed(task, NoContext)
    ELSE /\ renders' = [renders EXCEPT ![i].stage = "render"]
         /\ UNCHANGED <<url, loading, error, pdfDoc, loads, loadCalls, started, page>>

\* pdfPage.render(...).promise settles for the i-th run in flight
renderSettled(i, outcome) ==
    /\ renders' = Settled(renders, i)
    /\ IF outcome.ok
       THEN UNCHANGED <<url, loading, error, pdfDoc, loads, loadCalls, started, page>>
       ELSE renderFailed(renders[i], outcome.err)

\* the parent passes another page
pageProp(pg) ==
    /\ pg # page
    /\ page' = pg
    /\ renders' = IF pdfDoc = None THEN renders ELSE renderPage(pdfDoc[1], pg)
    /\ UNCHANGED <<url, loading, error, pdfDoc, loads, loadCalls, started>>

Resolved(n) == [ok |-> TRUE, numPages |-> n]
Rejected(err) == [ok |-> FALSE, err |-> err]
LoadOutcomes == {Resolved(n) : n \in {1, MaxPages}} \cup {Rejected(err) : err \in Errors}
RenderOutcomes == {[ok |-> TRUE]} \cup {Rejected(err) : err \in Errors}

\* the viewer right after mounting: the first load in flight
ViewerInit ==
    /\ url \in Urls
    /\ page \in {FirstPage, FirstPage + 1}
    /\ loading = TRUE
    /\ error = None
    /\ pdfDoc = None
    /\ loads = <<[url |-> url, cancelled |-> FALSE]>>
    /\ renders = << >>
    /\ loadCalls = << >>
    /\ started = 1
    /\ selectedTool = NoTool
    /\ now = 0
    /\ isDrawing = FALSE
    /\ startPoint = None
    /\ pathPoints = << >>
    /\ showTextInput = FALSE
    /\ textPosition = None
    /\ textValue = << >>
    /\ storedAnnotations = << >>
    /\ selectedAnnotationId = None
    /\ isMoving = FALSE
    /\ isResizing = FALSE
    /\ resizeHandle = NoHandle
    /\ moveStartPoint = None
    /\ emitted = << >>
    /\ issued = << >>
    /\ press = NoPress
    /\ spent = 0
    /\ probe = NoProbe
    /\ ControlsIdle

\* what the viewer leaves alone
outsideViewer == <<selectedTool, now, drawVars, textVars, selVars, storedAnnotations,
                   emitted, issued, press, spent, probe, controlsVars>>

\* the url prop or the identity of onLoadSuccess changes
PropsChange ==
    /\ started < MaxLoads
    /\ \E u \in Urls : loadPdf(u)
    /\ UNCHANGED outsideViewer

PageChangeProp ==
    /\ Len(renders) < MaxInFlight
    /\ \E pg \in {FirstPage, FirstPage + 1} : pageProp(pg)
    /\ UNCHANGED outsideViewer

LoadSettles ==
    /\ \E i \in DOMAIN loads : \E outcome \in LoadOutcomes : loadPdfSettled(i, outcome)
    /\ UNCHANGED outsideViewer

PageFetched ==
    /\ \E i \in DOMAIN renders : \E ctx \in BOOLEAN :
           renders[i].stage = "getPage" /\ getPageSettled(i, ctx)
    /\ UNCHANGED outsideViewer

PageRendered ==
    /\ \E i \in DOMAIN renders : \E outcome \in RenderOutcomes :
           renders[i].stage = "render" /\ renderSettled(i, outcome)
    /\ UNCHANGED outsideViewer

ViewerNext ==
    \/ PropsChange
    \/ PageChangeProp
    \/ LoadSettles
    \/ PageFetched
    \/ PageRendered

SpecViewer == ViewerInit /\ [][ViewerNext]_vars

\* ------------------------------------------------------------------------
\* The App: the viewer, the drawing canvas and the controls under one parent.
\* handleLoadSuccess is declared in the body of App, so every render of App
\* passes a new function to the viewer as onLoadSuccess
\* ------------------------------------------------------------------------
\* the state of the drawing canvas
canvasInner == <<now, drawVars, textVars, selVars, storedAnnotations, emitted, issued,
                 press, spent, probe>>

\* App renders with file url u and current page pg: the load effect of the
\* viewer runs again, and the state it resets supersedes the page renders,
\* the one for a changed page included
AppRenders(u, pg) ==
    /\ started < MaxLoads
    /\ url' = u
    /\ page' = pg
    /\ loads' = Append(Cancel(loads), [url |-> u, cancelled |-> FALSE])
    /\ loading' = TRUE
    /\ error' = None
    /\ pdfDoc' = None
    /\ renders' = Cancel(IF pg # page /\ pdfDoc # None
                         THEN renderPage(pdfDoc[1], pg) ELSE renders)
    /\ started' = started + 1
    /\ UNCHANGED loadCalls

\* App: handleFile, with the object url of the chosen file
handleFile(u) ==
    /\ u # url
    /\ AppRenders(u, FirstPage)
    /\ UNCHANGED <<controlsVars, selectedTool>>

\* the App with a document shown on one of its pages
AppInit ==
    /\ url \in Urls
    /\ numPages \in {1, MaxPages}
    /\ page \in 1..numPages
    /\ paginationPage = page
    /\ loading = FALSE
    /\ error = None
    /\ pdfDoc = Some([url |-> url, numPages |-> numPages])
    /\ loads = << >>
    /\ renders = << >>
    /\ loadCalls = <<[url |-> url, pages |-> numPages]>>
    /\ started = 1
    /\ notified = << >>
    /\ onlyPresses = TRUE
    /\ toolbar = "DrawingToolbar"
    /\ pressedTools = << >>
    /\ selectedTool = NoTool
    /\ now = 0
    /\ isDrawing = FALSE
    /\ startPoint = None
    /\ pathPoints = << >>
    /\ showTextInput = FALSE
    /\ textPosition = None
    /\ textValue = << >>
    /\ storedAnnotations = << >>
    /\ selectedAnnotationId = None
    /\ isMoving = FALSE
    /\ isResizing = FALSE
    /\ resizeHandle = NoHandle
    /\ moveStartPoint = None
    /\ emitted = << >>
    /\ issued = << >>
    /\ press = NoPress
    /\ spent = 0
    /\ probe = NoProbe

ChooseFile ==
    /\ \E u \in Urls : handleFile(u)
    /\ UNCHANGED canvasInner

\* a press of Next or Prev; setCurrentPage with the page App already has
\* renders nothing
AppPressNext ==
    /\ \E runs \in UpdaterRuns : goNext(runs)
    /\ IF NextPageOf(paginationPage) # page
       THEN AppRenders(url, NextPageOf(paginationPage))
       ELSE UNCHANGED viewerVars
    /\ UNCHANGED canvasInner

AppPressPrev ==
    /\ \E runs \in UpdaterRuns : goPrev(runs)
    /\ IF PrevPageOf(paginationPage) # page
       THEN AppRenders(url, PrevPageOf(paginationPage))
       ELSE UNCHANGED viewerVars
    /\ UNCHANGED canvasInner

\* a press of a toolbar button; setSelectedTool with the tool already
\* selected renders nothing
AppPressTool ==
    /\ \E tool \in ToolButtons :
           /\ ToolButtonPress(tool)
           /\ IF tool # selectedTool THEN AppRenders(url, page)
                                     ELSE UNCHANGED viewerVars
    /\ UNCHANGED canvasInner

\* a load settles; a page count other than the one App holds makes
\* handleLoadSuccess render App
AppLoadSettles ==
    /\ \E i \in DOMAIN loads : \E outcome \in LoadOutcomes :
           IF ~Superseded(loads[i]) /\ outcome.ok /\ outcome.numPages # numPages
           THEN LET doc == [url |-> loads[i].url, numPages |-> outcome.numPages]
                IN /\ started < MaxLoads
                   /\ handleLoadSuccess(outcome.numPages)
                   /\ loadCalls' = Append(loadCalls, [url |-> doc.url, pages |-> doc.numPages])
                   /\ loads' = Append(Cancel(Settled(loads, i)),
                                      [url |-> url, cancelled |-> FALSE])
                   /\ loading' = TRUE
                   /\ error' = None
                   /\ pdfDoc' = None
                   /\ renders' = Cancel(renderPage(doc, page))
                   /\ started' = started + 1
                   /\ UNCHANGED url
           ELSE /\ loadPdfSettled(i, outcome)
                /\ UNCHANGED <<controlsVars, selectedTool>>
    /\ UNCHANGED canvasInner

AppNext ==
    \/ ChooseFile
    \/ AppPressNext
    \/ AppPressPrev
    \/ AppPressTool
    \/ AppLoadSettles
    \/ PageFetched
    \/ PageRendered

SpecApp == AppInit /\ [][AppNext]_vars

\* ------------------------------------------------------------------------
\* Rendered output
\* ------------------------------------------------------------------------
\* the elements the component renders, by their data-testid: the canvas, the
\* text input while a text entry is pending, and the delete button while
\* something is selected
Rendered ==
    {"drawing-canvas"}
        \cup (IF TextInputShown THEN {"text-input"} ELSE {})
        \cup (IF selectedAnnotationId # None THEN {"delete-button"} ELSE {})

\* the value each rendered input element shows
InputValues == [id \in Rendered \cap {"text-input"} |-> textValue]

\* ------------------------------------------------------------------------
\* Properties
\* ------------------------------------------------------------------------
\* the pointer-up of a gesture that began with a shape tool which is still
\* the active tool, released at the given point
ShapeUp(point, timestamp) ==
    /\ press.kind = "draw"
    /\ press.tool = selectedTool
    /\ handleMouseUp(point, timestamp)

\* v is the smaller of a and b
IsMinOf(v, a, b) == v <= a /\ v <= b /\ v \in {a, b}

\* v is the distance between a and b
IsDistOf(v, a, b) == v >= 0 /\ v \in {a - b, b - a}

\* C1: every completed drag with the rect or circle tool from the press point
\* (x1,y1) to the release point (x2,y2), in any direction, commits an
\* annotation of the tool's kind with bbox x = min(x1,x2), y = min(y1,y2),
\* w = |x2-x1|, h = |y2-y1|
C1_DragBbox ==
    [][\A point \in Points, timestamp \in ClockReads :
          (/\ selectedTool \in {"rect", "circle"}
           /\ storedAnnotations' # storedAnnotations
           /\ ShapeUp(point, timestamp))
          => LET committed == storedAnnotations'[Len(storedAnnotations')]
                 from == press.pt[1]
             IN /\ storedAnnotations' = Append(storedAnnotations, committed)
                /\ committed.type = selectedTool
                /\ IsMinOf(committed.bbox.x, from.x, point.x)
                /\ IsMinOf(committed.bbox.y, from.y, point.y)
                /\ IsDistOf(committed.bbox.w, from.x, point.x)
                /\ IsDistOf(committed.bbox.h, from.y, point.y)]_vars

\* a circle was committed by a drag towards the upper right, so that the box
\* origin takes x from the press point and y from the release point
C1_Witness ==
    /\ emitted # << >>
    /\ emitted[1].type = "circle"
    /\ emitted[1].bbox = [x |-> 10, y |-> 10, w |-> 40, h |-> 40]
    /\ Len(storedAnnotations) = 2
    /\ storedAnnotations[1].bbox = [x |-> 30, y |-> 10, w |-> 20, h |-> 20]
    /\ storedAnnotations[1].createdAt < emitted[1].createdAt

\* the record a step appended to the stored collection
Appended == storedAnnotations'[Len(storedAnnotations')]

\* the step is a commit of a drag, or a commit of the text entry
DragCommit == \E point \in Points, timestamp \in ClockReads :
                  isDrawing /\ handleMouseUp(point, timestamp)

TextCommit == \E timestamp \in ClockReads :
                  TextInputShown /\ handleTextKeyDown("Enter", timestamp)

\* C2: every pointer-down / pointer-up pair performed with a shape tool active
\* appends exactly one annotation and passes that record to the creation
\* callback exactly once, and the callback is invoked by nothing but such a
\* commit and a text commit
C2_CommitPerGesture ==
    [][/\ \A point \in Points, timestamp \in ClockReads :
              (selectedTool \in ShapeTools /\ ShapeUp(point, timestamp))
              => /\ Len(storedAnnotations') = Len(storedAnnotations) + 1
                 /\ storedAnnotations' = Append(storedAnnotations, Appended)
                 /\ emitted' = <<Appended>>
       /\ emitted' # << >>
              => /\ Len(emitted') = 1
                 /\ storedAnnotations' = Append(storedAnnotations, emitted'[1])
                 /\ DragCommit \/ TextCommit]_vars

\* v + i in floating point, for a number v and an integer i
Shift(v, i) == IF v.d > 0 THEN [n |-> v.n + i * v.d, d |-> v.d] ELSE v

\* C3: after a Moving gesture with press point p0 and pointer-moves p1..pn the
\* annotation's bbox origin is translated by exactly pn - p0 with w and h
\* unchanged, both endpoints of a line and every point of a path are
\* translated by the same vector
C3_MoveTranslates ==
    [][\A point \in Points :
          (press.kind = "move" /\ SelectedIndex # 0 /\ handleMouseUp(point, now))
          => LET orig == press.ann[1]
                 moved == storedAnnotations'[SelectedIndex]
                 dx == press.last[1].x - press.pt[1].x
                 dy == press.last[1].y - press.pt[1].y
             IN /\ moved.bbox = [x |-> orig.bbox.x + dx, y |-> orig.bbox.y + dy,
                                 w |-> orig.bbox.w, h |-> orig.bbox.h]
                /\ orig.type = "line"
                       => /\ moved.attributes.startX = Shift(orig.attributes.startX, dx)
                          /\ moved.attributes.startY = Shift(orig.attributes.startY, dy)
                          /\ moved.attributes.endX = Shift(orig.attributes.endX, dx)
                          /\ moved.attributes.endY = Shift(orig.attributes.endY, dy)
                /\ orig.type = "path"
                       => /\ Len(moved.attributes.points) = Len(orig.attributes.points)
                          /\ \A i \in DOMAIN orig.attributes.points :
                                 /\ moved.attributes.points[i].x =
                                        Shift(orig.attributes.points[i].x, dx)
                                 /\ moved.attributes.points[i].y =
                                        Shift(orig.attributes.points[i].y, dy)]_vars

\* a line is being moved, two pointer-moves have translated it, and the
\* pointer is away from the press point on both axes
C3_Witness ==
    /\ press.kind = "move"
    /\ isMoving
    /\ press.n = 2
    /\ press.last[1].x # press.pt[1].x
    /\ press.last[1].y # press.pt[1].y
    /\ SelectedIndex # 0
    /\ storedAnnotations[SelectedIndex].type = "line"
    /\ storedAnnotations[SelectedIndex].bbox # press.ann[1].bbox

\* the annotations the moving and resizing branches map
IsSelected(i) == selectedAnnotationId # None /\ storedAnnotations[i].id = selectedAnnotationId[1]

\* C4: after any Resizing pointer-move, with any handle and any pointer delta,
\* the resized annotation's bbox has w >= 5 and h >= 5
C4_ResizeMinSize ==
    [][\A point \in Points :
          (MoveBranch = "resize" /\ handleMouseMove(point))
          => \A i \in DOMAIN storedAnnotations :
                 IsSelected(i) => /\ storedAnnotations'[i].bbox.w >= 5
                                  /\ storedAnnotations'[i].bbox.h >= 5]_vars

\* an east handle was dragged to the left of the left edge, and the width is
\* held at the minimum
C4_Witness ==
    /\ press.kind = "resize"
    /\ isResizing /\ ~isMoving
    /\ press.n >= 1
    /\ resizeHandle \in {"e", "ne", "se"}
    /\ SelectedIndex # 0
    /\ press.last[1].x < storedAnnotations[SelectedIndex].bbox.x
    /\ storedAnnotations[SelectedIndex].bbox.w = 5

\* C5: a Resizing pointer-move with delta (dx,dy) from the previous pointer
\* position whose result stays at or above the minimum size changes the bbox
\* as the active handle prescribes: 'e' adds dx to w, 'w' adds dx to x and
\* subtracts it from w, 's' adds dy to h, 'n' adds dy to y and subtracts it
\* from h, and a corner handle applies both axis effects
C5_HandleEffects ==
    [][\A point \in Points :
          (/\ press.kind = "resize"
           /\ MoveBranch = "resize"
           /\ SelectedIndex # 0
           /\ handleMouseMove(point))
          => LET old == storedAnnotations[SelectedIndex].bbox
                 dx == point.x - press.last[1].x
                 dy == point.y - press.last[1].y
                 east == IF resizeHandle \in {"e", "ne", "se"} THEN dx ELSE 0
                 west == IF resizeHandle \in {"w", "nw", "sw"} THEN dx ELSE 0
                 south == IF resizeHandle \in {"s", "sw", "se"} THEN dy ELSE 0
                 north == IF resizeHandle \in {"n", "nw", "ne"} THEN dy ELSE 0
                 prescribed == [x |-> old.x + west, y |-> old.y + north,
                                w |-> old.w + east - west, h |-> old.h + south - north]
             IN (prescribed.w >= 5 /\ prescribed.h >= 5)
                    => storedAnnotations'[SelectedIndex].bbox = prescribed]_vars

\* the north-west corner handle was dragged on both axes and the box stayed
\* above the minimum size
C5_Witness ==
    /\ press.kind = "resize"
    /\ isResizing /\ ~isMoving
    /\ press.n >= 1
    /\ resizeHandle = "nw"
    /\ press.last[1].x # press.pt[1].x
    /\ press.last[1].y # press.pt[1].y
    /\ SelectedIndex # 0
    /\ storedAnnotations[SelectedIndex].bbox.w > 5
    /\ storedAnnotations[SelectedIndex].bbox.h > 5

\* the point lies strictly outside the box
StrictlyOutside(point, b) ==
    \/ point.x < b.x \/ point.x > b.x + b.w
    \/ point.y < b.y \/ point.y > b.y + b.h

\* the point is within 8 px, on both axes, of a corner or an edge midpoint of
\* the box (in doubled coordinates)
NearHandle(point, b) ==
    \E i \in 0..2, j \in 0..2 :
        /\ <<i, j>> # <<1, 1>>
        /\ 2 * point.x - (2 * b.x + i * b.w) \in -16..16
        /\ 2 * point.y - (2 * b.y + j * b.h) \in -16..16

\* no tool is active, an annotation is selected and the point lies strictly
\* outside the bbox of every stored annotation
OutsideAll(point) ==
    /\ selectedTool = NoTool
    /\ selectedAnnotationId # None
    /\ \A i \in DOMAIN storedAnnotations : StrictlyOutside(point, storedAnnotations[i].bbox)

\* C6, as stated: with no active tool and an annotation selected, a
\* pointer-down strictly outside the bbox of every stored annotation clears
\* the selection
C6_OutsideDownDeselects ==
    [][\A point \in Points :
          (OutsideAll(point) /\ handleMouseDown(point)) => selectedAnnotationId' = None]_vars

\* C6, amended: with no active tool and an annotation selected, a pointer-down
\* strictly outside the bbox of every stored annotation and not on a resize
\* handle of the selected annotation clears the selection
C6_OutsideOffHandleDownDeselects ==
    [][\A point \in Points :
          (/\ OutsideAll(point)
           /\ \A i \in DOMAIN storedAnnotations :
                  IsSelected(i) => ~NearHandle(point, storedAnnotations[i].bbox)
           /\ handleMouseDown(point))
          => selectedAnnotationId' = None]_vars

\* a pointer-down outside every bbox has cleared a selection
C6_Witness ==
    /\ press.kind = "deselect"
    /\ press.ann # None
    /\ selectedAnnotationId = None
    /\ \E i \in DOMAIN storedAnnotations : storedAnnotations[i] = press.ann[1]
    /\ \A i \in DOMAIN storedAnnotations :
           StrictlyOutside(press.pt[1], storedAnnotations[i].bbox)

\* the collection without its i-th annotation
Without(anns, i) == [k \in 1..(Len(anns) - 1) |-> IF k < i THEN anns[k] ELSE anns[k + 1]]

\* a Delete key press, in the document or in the text input, or a press of
\* the delete button
DeletePress ==
    \/ handleKeyDown("Delete")
    \/ handleDelete

\* C7: a Delete key press or delete-button press while an annotation is
\* selected removes that annotation and only that annotation and clears the
\* selection; a Delete key press with no selection changes neither the
\* collection nor the selection
C7_DeleteRemovesOnlySelected ==
    [][DeletePress
          => IF selectedAnnotationId # None /\ SelectedIndex # 0
             THEN /\ storedAnnotations' = Without(storedAnnotations, SelectedIndex)
                  /\ selectedAnnotationId' = None
             ELSE selectedAnnotationId = None
                     => UNCHANGED <<storedAnnotations, selectedAnnotationId>>]_vars

\* the typed content has a character that trimming keeps
HasContent(value) == \E i \in DOMAIN value : value[i] # " "

\* C8: with a text entry pending at (px,py), Enter commits iff the trimmed
\* content is non-empty, and then exactly one text annotation with the typed
\* content, fontSize 16 and bbox {px, py, 100, 20} is appended and emitted and
\* the entry closes; Escape closes the entry and appends and emits nothing
C8_TextEntryKeys ==
    [][\A key \in {"Enter", "Escape"}, timestamp \in ClockReads :
          (TextInputShown /\ KeyInTextInput(key, timestamp))
          => IF key = "Enter" /\ HasContent(textValue)
             THEN /\ storedAnnotations' = Append(storedAnnotations, Appended)
                  /\ emitted' = <<Appended>>
                  /\ Appended.type = "text"
                  /\ Appended.attributes.text = textValue
                  /\ Appended.attributes.fontSize = [n |-> 16, d |-> 1]
                  /\ Appended.bbox = [x |-> textPosition[1].x, y |-> textPosition[1].y,
                                      w |-> 100, h |-> 20]
                  /\ ~showTextInput'
             ELSE /\ storedAnnotations' = storedAnnotations
                  /\ emitted' = << >>
                  /\ showTextInput' = (key = "Enter")]_vars

\* a text annotation with content that trimming would shorten was committed
\* at the second click point and the entry is closed
C8_Witness ==
    /\ emitted # << >>
    /\ emitted[1].type = "text"
    /\ emitted[1].attributes.text = <<"H", "i", " ">>
    /\ emitted[1].bbox = [x |-> 30, y |-> 30, w |-> 100, h |-> 20]
    /\ ~showTextInput

\* C9: all ids assigned in one session are pairwise distinct, however
\* closely the commits are spaced in time
C9_IdsDistinct ==
    \A i, j \in DOMAIN issued : i # j => issued[i] # issued[j]

\* the annotations of the pages other than the current one, in stored order
OffPage(anns) == SelectSeq(anns, LAMBDA ann : ann.page # page)

\* C10: while the current page is q, pointer-down hit testing, move, resize
\* and Delete never select, modify or remove an annotation of a page p # q,
\* and every annotation's page is the page that was current at its commit
C10_PagesIndependent ==
    [][/\ page' = page => OffPage(storedAnnotations') = OffPage(storedAnnotations)
       /\ \A point \in Points :
              (handleMouseDown(point) /\ selectedAnnotationId' # selectedAnnotationId)
              => \A i \in DOMAIN storedAnnotations :
                     (selectedAnnotationId' # None
                      /\ storedAnnotations[i].id = selectedAnnotationId'[1])
                     => storedAnnotations[i].page = page
       /\ Len(storedAnnotations') > Len(storedAnnotations) => Appended.page = page]_vars

\* an annotation of kind text is the current selection
TextSelected(i) == IsSelected(i) /\ storedAnnotations[i].type = "text"

\* C11: the text attribute editor panel is shown exactly when the current
\* selection is an annotation of kind text
C11_TextEditorShown ==
    ("text-editor-panel" \in Rendered)
        <=> \E i \in DOMAIN storedAnnotations : TextSelected(i)

\* C12: with a text annotation selected, the three fields of the text
\* attribute editor are shown and hold that annotation's text, font size and
\* colour
C12_TextEditorFields ==
    \A i \in DOMAIN storedAnnotations :
        TextSelected(i)
        => /\ {"edit-text-content", "edit-font-size", "edit-text-color"}
                  \subseteq DOMAIN InputValues
           /\ InputValues["edit-text-content"] = storedAnnotations[i].attributes.text
           /\ InputValues["edit-font-size"] = storedAnnotations[i].attributes.fontSize
           /\ InputValues["edit-text-color"] = storedAnnotations[i].attributes.color

\* the point lies inside the box, bounds included
Inside(point, b) == ~StrictlyOutside(point, b)

\* the place of each handle on the box: columns and rows 0, 1, 2 are the
\* left, middle and right, and the top, middle and bottom
HandlePlace ==
    [nw |-> <<0, 0>>, n |-> <<1, 0>>, ne |-> <<2, 0>>, w |-> <<0, 1>>,
     e |-> <<2, 1>>, sw |-> <<0, 2>>, s |-> <<1, 2>>, se |-> <<2, 2>>]

\* the point is within 8 px, on both axes, of the handle h of the box
OnHandleOf(point, h, b) ==
    /\ 2 * point.x - (2 * b.x + HandlePlace[h][1] * b.w) \in -16..16
    /\ 2 * point.y - (2 * b.y + HandlePlace[h][2] * b.h) \in -16..16

\* the stored annotations whose bbox contains the point
Under(point) == {i \in DOMAIN storedAnnotations : Inside(point, storedAnnotations[i].bbox)}

\* C13: on pointer-down with no active tool, (1) if an annotation is selected
\* and the point is on one of its eight handles, Resizing starts with that
\* handle; (2) else if the point is inside the selected annotation's bbox,
\* Moving starts; (3) else the most recently created annotation whose bbox
\* contains the point becomes the selection; (4) else the selection is cleared
C13_DownPriority ==
    [][\A point \in Points :
          (selectedTool = NoTool /\ handleMouseDown(point))
          => LET sel == {i \in DOMAIN storedAnnotations : IsSelected(i)}
                 onHandle == \E i \in sel : NearHandle(point, storedAnnotations[i].bbox)
                 inside == \E i \in sel : Inside(point, storedAnnotations[i].bbox)
             IN IF onHandle
                THEN /\ isResizing'
                     /\ \E i \in sel :
                            /\ resizeHandle' \in DOMAIN HandlePlace
                            /\ OnHandleOf(point, resizeHandle', storedAnnotations[i].bbox)
                     /\ startPoint' = <<point>>
                     /\ UNCHANGED <<selectedAnnotationId, isMoving>>
                ELSE IF inside
                THEN /\ isMoving'
                     /\ moveStartPoint' = <<point>>
                     /\ UNCHANGED <<selectedAnnotationId, isResizing>>
                ELSE IF Under(point) # {}
                THEN /\ \E i \in Under(point) :
                            /\ \A k \in Under(point) : k <= i
                            /\ selectedAnnotationId' = <<storedAnnotations[i].id>>
                     /\ UNCHANGED <<isMoving, isResizing>>
                ELSE /\ selectedAnnotationId' = << >>
                     /\ UNCHANGED <<isMoving, isResizing>>]_vars

\* the number of gestures in progress
ActiveGestures ==
    (IF isDrawing THEN 1 ELSE 0) + (IF isMoving THEN 1 ELSE 0) + (IF isResizing THEN 1 ELSE 0)

\* C15: gestures never overlap: in every reachable state at most one of
\* Drawing, Moving and Resizing is active
C15_GesturesNeverOverlap == ActiveGestures <= 1

\* C16: a zero-size drag with a shape tool (pointer-down and pointer-up at
\* the same point) produces no annotation and no creation callback
C16_ZeroSizeDragSilent ==
    [][\A point \in Points, timestamp \in ClockReads :
          (/\ selectedTool \in ShapeTools
           /\ press.pt = <<point>>
           /\ ShapeUp(point, timestamp))
          => /\ storedAnnotations' = storedAnnotations
             /\ emitted' = << >>]_vars

\* C14: hit testing is idempotent: of two consecutive pointer-downs at the
\* same point, with a pointer-up and no pointer-move in between, the second
\* leaves the same selected id as the first
C14_HitTestIdempotent ==
    probe.first # None => selectedAnnotationId = probe.first[1]

\* a pointer-down selected the more recent of two annotations under the
\* point, and the pointer-down repeated at that point left it selected and
\* began to move it
C14_Witness ==
    /\ probe.first # None
    /\ Len(storedAnnotations) = 2
    /\ storedAnnotations[1].id # storedAnnotations[2].id
    /\ \A i \in {1, 2} : Inside(probe.pt[1], storedAnnotations[i].bbox)
    /\ probe.first[1] = <<storedAnnotations[2].id>>
    /\ selectedAnnotationId = probe.first[1]
    /\ isMoving

\* the shown page is a page of the document
InRange == paginationPage >= 1 /\ paginationPage <= numPages

\* C17: in the pagination control Next increases the shown page by one and
\* Prev decreases it by one, each such press passes the new page number to
\* onPageChange, and over any sequence of Next/Prev presses from an in-range
\* initial page the shown page stays within 1..numPages
C17_PaginationSteps ==
    /\ [](onlyPresses => InRange)
    /\ [][\A runs \in UpdaterRuns :
             /\ (InRange /\ goNext(runs))
                    => /\ paginationPage' = paginationPage + 1
                       /\ InRange'
                       /\ notified' # << >>
                       /\ \A i \in DOMAIN notified' : notified'[i] = paginationPage'
             /\ (InRange /\ goPrev(runs))
                    => /\ paginationPage' = paginationPage - 1
                       /\ InRange'
                       /\ notified' # << >>
                       /\ \A i \in DOMAIN notified' : notified'[i] = paginationPage'
             /\ paginationPage' # paginationPage
                    => notified' # << >> /\ notified'[1] = paginationPage']_vars

\* Next was pressed up to the last page of a document of the largest page
\* count, and the parent was told
C17_Witness ==
    /\ onlyPresses
    /\ numPages = MaxPages
    /\ paginationPage = numPages
    /\ notified = <<numPages>>
    /\ page = numPages

\* C20: at most one tool is selected at any time: after any sequence of
\* tool-button presses exactly the button of the most recently pressed tool is
\* marked pressed, and before the first press no drawing tool is selected
C20_OneToolPressed ==
    /\ Cardinality({tool \in ToolButtons : Pressed(tool)}) <= 1
    /\ pressedTools # << >>
           => \A tool \in ToolButtons :
                  Pressed(tool) <=> tool = pressedTools[Len(pressedTools)]
    /\ pressedTools = << >>
           => \A tool \in ShapeTools \cup {"text"} : ~Pressed(tool)

\* the same button was pressed twice in a row and is the one marked pressed
C20_Witness ==
    /\ Len(pressedTools) = 2
    /\ pressedTools[1] = pressedTools[2]
    /\ pressedTools[2] = "circle"
    /\ {tool \in ToolButtons : Pressed(tool)} = {"circle"}

\* a load of the current url is in flight
LoadInFlight == \E i \in DOMAIN loads : ~loads[i].cancelled

\* C18: when loading the document or fetching a page fails the viewer shows
\* the error message, shows no loading indicator and hides the canvas; the
\* loading indicator is shown from the start of a load until that load
\* succeeds or fails
C18_FailureShown ==
    /\ [](LoadInFlight <=> LoadingShown)
    /\ [][/\ \A i \in DOMAIN loads : \A err \in Errors :
                 (~loads[i].cancelled /\ loadPdfSettled(i, Rejected(err)))
                     => /\ ErrorShown' /\ error' = Some(ErrorMessage(err))
                        /\ ~LoadingShown'
                        /\ CanvasDisplay' = "none"
          /\ \A i \in DOMAIN renders : \A ctx \in BOOLEAN :
                 (/\ ~renders[i].cancelled /\ renders[i].stage = "getPage"
                  /\ (renders[i].pg > renders[i].doc.numPages \/ ~ctx)
                  /\ getPageSettled(i, ctx))
                     => ErrorShown' /\ ~LoadingShown' /\ CanvasDisplay' = "none"
          /\ \A i \in DOMAIN renders : \A err \in Errors :
                 (/\ ~renders[i].cancelled /\ renders[i].stage = "render"
                  /\ renderSettled(i, Rejected(err)))
                     => ErrorShown' /\ ~LoadingShown' /\ CanvasDisplay' = "none"
          /\ \A i \in DOMAIN loads : \A outcome \in LoadOutcomes :
                 (~loads[i].cancelled /\ loadPdfSettled(i, outcome))
                     => ~LoadingShown']_vars

\* fetching page 2 of a loaded one-page document has failed
C18_Witness ==
    /\ pdfDoc # None
    /\ error = Some(InvalidPage.message)
    /\ ~loading
    /\ renders = << >>
    /\ CanvasDisplay = "none"

\* C19: onLoadSuccess is called with the page count when the load of the
\* current url completes; a load superseded by a change of url never sets
\* the document, never calls onLoadSuccess and never sets the error or the
\* loading state
C19_SupersededLoadSilent ==
    /\ [](\A i \in DOMAIN loads : ~loads[i].cancelled => loads[i].url = url)
    /\ [][\A i \in DOMAIN loads : \A outcome \in LoadOutcomes :
              loadPdfSettled(i, outcome)
                  => /\ (~loads[i].cancelled /\ outcome.ok)
                            => /\ loadCalls' = Append(loadCalls, [url |-> url, pages |-> outcome.numPages])
                               /\ pdfDoc' = Some([url |-> url, numPages |-> outcome.numPages])
                     /\ (~loads[i].cancelled /\ ~outcome.ok)
                            => loadCalls' = loadCalls
                     /\ loads[i].cancelled
                            => UNCHANGED <<pdfDoc, loadCalls, error, loading>>]_vars

\* the load of a.pdf was superseded by a change to b.pdf and both have
\* completed: only the page count of b.pdf was reported
C19_Witness ==
    /\ started = 2
    /\ loads = << >>
    /\ url = "b.pdf"
    /\ loadCalls = <<[url |-> "b.pdf", pages |-> MaxPages]>>
    /\ pdfDoc = Some([url |-> "b.pdf", numPages |-> MaxPages])

\* v <= s on numbers, false when either is NaN
AtMost(v, s) == ~IsNaN(v) /\ ~IsNaN(s) /\ ~Less(s, v)

\* lo and hi are the least and the greatest of the numbers vs
IsRangeOf(lo, hi, vs) ==
    /\ lo \in vs /\ hi \in vs
    /\ \A v \in vs : AtMost(lo, v) /\ AtMost(v, hi)

\* the points that the shape details of a line or a path hold
DetailPoints(ann) ==
    IF ann.type = "line"
    THEN {[x |-> ann.attributes.startX, y |-> ann.attributes.startY],
          [x |-> ann.attributes.endX, y |-> ann.attributes.endY]}
    ELSE IF ann.type = "path"
    THEN {ann.attributes.points[i] : i \in DOMAIN ann.attributes.points}
    ELSE {}

\* the bbox is the minimal axis-aligned box that contains the detail points
InSync(ann) ==
    /\ IsRangeOf(Num(ann.bbox.x), Num(ann.bbox.x + ann.bbox.w),
                 {pt.x : pt \in DetailPoints(ann)})
    /\ IsRangeOf(Num(ann.bbox.y), Num(ann.bbox.y + ann.bbox.h),
                 {pt.y : pt \in DetailPoints(ann)})

\* C21: in every reachable state the bbox of every stored line annotation is
\* the normalized envelope of its two endpoints and the bbox of every stored
\* path annotation is the minimal axis-aligned box containing all its points
C21_BboxInSync ==
    \A i \in DOMAIN storedAnnotations :
        storedAnnotations[i].type \in {"line", "path"} => InSync(storedAnnotations[i])

\* every coordinate of the shape details, and the font size of a text, is a
\* finite number
DetailsDefined(ann) ==
    /\ \A pt \in DetailPoints(ann) : IsFinite(pt.x) /\ IsFinite(pt.y)
    /\ ann.type = "text" => IsFinite(ann.attributes.fontSize)

\* C22: resizing never divides by a zero old width or height: after any
\* Resizing pointer-move all endpoint and point coordinates and the font size
\* of the resized line, path or text annotation are still defined numbers
C22_ResizeKeepsNumbers ==
    [][\A point \in Points :
          (MoveBranch = "resize" /\ handleMouseMove(point))
          => \A i \in DOMAIN storedAnnotations :
                 IsSelected(i) => DetailsDefined(storedAnnotations'[i])]_vars

\* C23: a Resizing pointer-move leaves the edges that the handle does not
\* control unchanged: handles e and w leave y and h unchanged, handles n and s
\* leave x and w unchanged, a handle containing 'w' never moves the right edge
\* x + w and a handle containing 'n' never moves the bottom edge y + h, also
\* when the size is clamped to the minimum
C23_ResizeFrame ==
    [][\A point \in Points :
          (MoveBranch = "resize" /\ handleMouseMove(point))
          => \A i \in DOMAIN storedAnnotations :
                 IsSelected(i)
                 => LET old == storedAnnotations[i].bbox
                        new == storedAnnotations'[i].bbox
                    IN /\ resizeHandle \in {"e", "w"} => new.y = old.y /\ new.h = old.h
                       /\ resizeHandle \in {"n", "s"} => new.x = old.x /\ new.w = old.w
                       /\ resizeHandle \in {"w", "nw", "sw"} => new.x + new.w = old.x + old.w
                       /\ resizeHandle \in {"n", "nw", "ne"} => new.y + new.h = old.y + old.h]_vars

\* the handles in the stated order
StatedOrder == <<"nw", "ne", "sw", "se", "n", "s", "e", "w">>

\* the handles of the box of which the point is within 8 px on both axes
Matching(point, b) == {h \in DOMAIN HandlePlace : OnHandleOf(point, h, b)}

\* the point is exactly the centre of the handle h of the box
OnCentreOf(point, h, b) ==
    /\ 2 * point.x = 2 * b.x + HandlePlace[h][1] * b.w
    /\ 2 * point.y = 2 * b.y + HandlePlace[h][2] * b.h

\* h is the first of the handles hs in the stated order
FirstOf(h, hs) ==
    \E j \in DOMAIN StatedOrder :
        /\ StatedOrder[j] = h
        /\ h \in hs
        /\ \A k \in 1..(j - 1) : StatedOrder[k] \notin hs

\* the handle test returns a handle iff the point is within 8 px on both axes
\* of a handle centre, and then the first such handle in the stated order;
\* a select-mode press on the selected annotation for which it returns a
\* handle starts a resize with that handle
HandleTestOf(point) ==
    LET b == storedAnnotations[SelectedIndex].bbox
        found == getResizeHandleAtPoint(point, b)
    IN /\ found # NoHandle <=> Matching(point, b) # {}
       /\ found # NoHandle => FirstOf(found, Matching(point, b))
       /\ found # NoHandle => isResizing' /\ resizeHandle' = found

\* C24, as stated: getResizeHandleAtPoint(p, box) returns a handle iff p is
\* within 8 px on both axes of one of the eight handle centres, the first in
\* the order nw, ne, sw, se, n, s, e, w when several match, and a press exactly
\* on the centre of a handle of the selected annotation starts a resize with
\* that handle
C24_CentrePressTakesThatHandle ==
    [][(/\ probe'.pt # None
        /\ selectedTool = NoTool /\ SelectedIndex # 0
        /\ handleMouseDown(probe'.pt[1]))
          => /\ HandleTestOf(probe'.pt[1])
             /\ \A h \in DOMAIN HandlePlace :
                    OnCentreOf(probe'.pt[1], h, storedAnnotations[SelectedIndex].bbox)
                    => isResizing' /\ resizeHandle' = h]_vars

\* C24, amended: getResizeHandleAtPoint(p, box) returns a handle iff p is
\* within 8 px on both axes of one of the eight handle centres, the first in
\* the order nw, ne, sw, se, n, s, e, w when several match, and a press exactly
\* on the centre of a handle of the selected annotation starts a resize with
\* the first handle in that order whose centre is within 8 px of the press,
\* which is the pressed handle itself when no earlier handle is that close
C24_CentrePressTakesFirstMatch ==
    [][(/\ probe'.pt # None
        /\ selectedTool = NoTool /\ SelectedIndex # 0
        /\ handleMouseDown(probe'.pt[1]))
          => /\ HandleTestOf(probe'.pt[1])
             /\ \A h \in DOMAIN HandlePlace :
                    OnCentreOf(probe'.pt[1], h, storedAnnotations[SelectedIndex].bbox)
                    => /\ isResizing'
                       /\ FirstOf(resizeHandle',
                                  Matching(probe'.pt[1], storedAnnotations[SelectedIndex].bbox))
                       /\ FirstOf(h, Matching(probe'.pt[1], storedAnnotations[SelectedIndex].bbox))
                              => resizeHandle' = h]_vars

\* the south-east corner of a box 6 px wide was pressed exactly, and the
\* resize began with the south-west handle, whose centre is 6 px away
C24_Witness ==
    /\ isResizing
    /\ resizeHandle = "sw"
    /\ SelectedIndex # 0
    /\ storedAnnotations[SelectedIndex].bbox.w = 6
    /\ storedAnnotations[SelectedIndex].bbox.h = 21
    /\ probe.pt # None
    /\ OnCentreOf(probe.pt[1], "se", storedAnnotations[SelectedIndex].bbox)

\* the number that holds the integer i
Whole(i) == [n |-> i, d |-> 1]

\* C25: every completed line drag from the press point s to the release point
\* e commits a line annotation that stores startX/startY = s and endX/endY = e
\* literally, direction preserved, while its bbox is the normalized box of s
\* and e
C25_LineEndpointsLiteral ==
    [][\A point \in Points, timestamp \in ClockReads :
          (/\ selectedTool = "line"
           /\ storedAnnotations' # storedAnnotations
           /\ ShapeUp(point, timestamp))
          => LET from == press.pt[1]
             IN /\ storedAnnotations' = Append(storedAnnotations, Appended)
                /\ Appended.type = "line"
                /\ Appended.attributes.startX = Whole(from.x)
                /\ Appended.attributes.startY = Whole(from.y)
                /\ Appended.attributes.endX = Whole(point.x)
                /\ Appended.attributes.endY = Whole(point.y)
                /\ IsMinOf(Appended.bbox.x, from.x, point.x)
                /\ IsMinOf(Appended.bbox.y, from.y, point.y)
                /\ IsDistOf(Appended.bbox.w, from.x, point.x)
                /\ IsDistOf(Appended.bbox.h, from.y, point.y)]_vars

\* a line was committed by a drag towards the lower left: its start lies to
\* the right of and above its end
C25_Witness ==
    /\ emitted # << >>
    /\ emitted[1].type = "line"
    /\ emitted[1].attributes.startX = Whole(50)
    /\ emitted[1].attributes.startY = Whole(10)
    /\ emitted[1].attributes.endX = Whole(10)
    /\ emitted[1].attributes.endY = Whole(50)
    /\ emitted[1].bbox = [x |-> 10, y |-> 10, w |-> 40, h |-> 40]

\* the points as the numbers a path stores
AsNumbers(points) == [k \in DOMAIN points |-> [x |-> Whole(points[k].x), y |-> Whole(points[k].y)]]

\* to is the image of from under the map of a resize from the old box to
\* the new one, on the axes on which the old box has an extent and the
\* coordinate is a finite number
IsRescaled(to, from, old, new) ==
    /\ (old.w # 0 /\ IsFinite(from.x))
           => /\ IsFinite(to.x)
              /\ to.x.n * from.x.d * old.w
                     = ((from.x.n - old.x * from.x.d) * new.w
                            + new.x * old.w * from.x.d) * to.x.d
    /\ (old.h # 0 /\ IsFinite(from.y))
           => /\ IsFinite(to.y)
              /\ to.y.n * from.y.d * old.h
                     = ((from.y.n - old.y * from.y.d) * new.h
                            + new.y * old.h * from.y.d) * to.y.d

\* C26: every completed freehand gesture commits a path annotation whose
\* point sequence is the pointer-down point followed by each pointer-move
\* point in event order (at least one point) and whose bbox is the minimal
\* axis-aligned box over those points; later moves and resizes never change
\* the number or the order of the points: each point stays in its place in the
\* sequence and is translated or rescaled there
C26_FreehandPoints ==
    [][/\ \A point \in Points, timestamp \in ClockReads :
              (/\ selectedTool = "freehand"
               /\ probe.trail # << >>
               /\ UpBranch = "draw"
               /\ handleMouseUp(point, timestamp))
              => /\ storedAnnotations' = Append(storedAnnotations, Appended)
                 /\ emitted' = <<Appended>>
                 /\ Appended.type = "path"
                 /\ Appended.attributes.points = AsNumbers(probe.trail)
                 /\ Len(Appended.attributes.points) >= 1
                 /\ InSync(Appended)
       /\ \A point \in Points :
              (MoveBranch \in {"move", "resize"} /\ handleMouseMove(point))
              => \A i \in DOMAIN storedAnnotations :
                     storedAnnotations[i].type = "path"
                     => LET before == storedAnnotations[i]
                            after == storedAnnotations'[i]
                        IN /\ after.type = "path"
                           /\ DOMAIN after.attributes.points = DOMAIN before.attributes.points
                           /\ \A k \in DOMAIN before.attributes.points :
                                  IF ~IsSelected(i)
                                  THEN after.attributes.points[k] = before.attributes.points[k]
                                  ELSE IF MoveBranch = "move"
                                  THEN /\ after.attributes.points[k].x =
                                              Shift(before.attributes.points[k].x,
                                                    point.x - moveStartPoint[1].x)
                                       /\ after.attributes.points[k].y =
                                              Shift(before.attributes.points[k].y,
                                                    point.y - moveStartPoint[1].y)
                                  ELSE IsRescaled(after.attributes.points[k],
                                                  before.attributes.points[k],
                                                  before.bbox, after.bbox)]_vars

\* a path drawn from the upper right to the lower left, so that its points
\* are not in coordinate order, was committed, and its south-east handle was
\* dragged
C26_Witness ==
    /\ press.kind = "resize"
    /\ press.n >= 1
    /\ resizeHandle = "se"
    /\ SelectedIndex # 0
    /\ storedAnnotations[SelectedIndex].type = "path"
    /\ Len(storedAnnotations[SelectedIndex].attributes.points) = 2
    /\ storedAnnotations[SelectedIndex].bbox = [x |-> 10, y |-> 10, w |-> 14, h |-> 20]
    /\ storedAnnotations[SelectedIndex].attributes.points[1] = [x |-> Whole(24), y |-> Whole(10)]
    /\ storedAnnotations[SelectedIndex].attributes.points[2] = [x |-> Whole(10), y |-> Whole(30)]

\* the smaller of the two axis scale factors of a resize from the old box to
\* the new one, as numerator and denominator
MinScale(old, new) ==
    IF new.w * old.h <= new.h * old.w THEN <<new.w, old.w>> ELSE <<new.h, old.h>>

\* the text annotations a Resizing pointer-move resizes
ResizedTexts == {i \in DOMAIN storedAnnotations :
                    IsSelected(i) /\ storedAnnotations[i].type = "text"}

\* C27, as stated: after every Resizing pointer-move on a text annotation its
\* font size equals the old font size scaled by the minimum of the two axis
\* scale factors (newW/oldW, newH/oldH) and floored at 8, hence fontSize >= 8
\* after any sequence of resizes
C27_FontScaledExactly ==
    [][\A point \in Points :
          (MoveBranch = "resize" /\ handleMouseMove(point))
          => \A i \in ResizedTexts :
                 LET size == storedAnnotations[i].attributes.fontSize
                     after == storedAnnotations'[i].attributes.fontSize
                     scale == MinScale(storedAnnotations[i].bbox, storedAnnotations'[i].bbox)
                 IN /\ IsFinite(after) /\ after.n >= 8 * after.d
                    /\ IF size.n * scale[1] < 8 * size.d * scale[2]
                       THEN after = Whole(8)
                       ELSE after.n * size.d * scale[2] = size.n * scale[1] * after.d]_vars

\* C27, amended: after every Resizing pointer-move on a text annotation its
\* font size equals the old font size scaled by the minimum of the two axis
\* scale factors (newW/oldW, newH/oldH), rounded to the nearest integer (a
\* half rounds up) and floored at 8, hence fontSize >= 8 after any sequence of
\* resizes
C27_FontScaledRounded ==
    [][\A point \in Points :
          (MoveBranch = "resize" /\ handleMouseMove(point))
          => \A i \in ResizedTexts :
                 LET size == storedAnnotations[i].attributes.fontSize
                     after == storedAnnotations'[i].attributes.fontSize
                     scale == MinScale(storedAnnotations[i].bbox, storedAnnotations'[i].bbox)
                     twice == 2 * size.n * scale[1]
                     unit == size.d * scale[2]
                 IN /\ IsFinite(after) /\ after.d = 1 /\ after.n >= 8
                    /\ IF twice < 17 * unit
                       THEN after.n = 8
                       ELSE /\ (2 * after.n - 1) * unit <= twice
                            /\ twice < (2 * after.n + 1) * unit]_vars

\* the north-west handle of a text annotation was dragged twice: the first
\* drag scaled the font size 16 by 0.8 to 12.8, stored as 13, the second
\* scaled 13 by 0.75 to 9.75, stored as 10
C27_Witness ==
    /\ press.kind = "resize"
    /\ press.n = 2
    /\ resizeHandle = "nw"
    /\ SelectedIndex # 0
    /\ storedAnnotations[SelectedIndex].type = "text"
    /\ storedAnnotations[SelectedIndex].bbox = [x |-> 50, y |-> 10, w |-> 60, h |-> 60]
    /\ storedAnnotations[SelectedIndex].attributes.fontSize = Whole(10)

\* C28: with a rect, circle, line or freehand tool active a pointer-down
\* always starts Drawing at its point, pointer-down and pointer-move never
\* change the selection or the stored collection, so that of the pointer
\* events only pointer-up can add the drawn shape to the collection
C28_DrawingBypassesSelection ==
    [][/\ \A point \in Points :
              (selectedTool \in ShapeTools /\ handleMouseDown(point))
              => /\ isDrawing'
                 /\ startPoint' = <<point>>
                 /\ UNCHANGED <<selectedAnnotationId, storedAnnotations>>
       /\ \A point \in Points :
              (selectedTool \in ShapeTools /\ handleMouseMove(point))
              => UNCHANGED <<selectedAnnotationId, storedAnnotations>>]_vars

\* C29: a pointer-move during Moving or Resizing leaves every stored
\* annotation other than the selected one unchanged, and the pointer-up that
\* follows ends the gesture and keeps the selection
C29_OnlySelectedEdited ==
    [][/\ \A point \in Points :
              ((isMoving \/ isResizing) /\ handleMouseMove(point))
              => /\ Len(storedAnnotations') = Len(storedAnnotations)
                 /\ \A i \in DOMAIN storedAnnotations :
                        i # SelectedIndex => storedAnnotations'[i] = storedAnnotations[i]
       /\ \A point \in Points, timestamp \in ClockReads :
              ((isMoving \/ isResizing) /\ handleMouseUp(point, timestamp))
              => /\ ~isMoving' /\ ~isResizing'
                 /\ selectedAnnotationId' = selectedAnnotationId]_vars

\* the four fields an annotation is given at its creation
Identity(ann) == [id |-> ann.id, type |-> ann.type, page |-> ann.page,
                  createdAt |-> ann.createdAt]

Identities(anns) == [i \in DOMAIN anns |-> Identity(anns[i])]

\* C30: id, kind, page and creation timestamp of a stored annotation never
\* change: every step leaves these four fields of every stored annotation as
\* they are, the only changes of their sequence being a commit appending one
\* annotation and a deletion dropping the annotations with the selected id
C30_IdentityFieldsFrozen ==
    [][\/ Identities(storedAnnotations') = Identities(storedAnnotations)
       \/ /\ Len(storedAnnotations') = Len(storedAnnotations) + 1
          /\ SubSeq(Identities(storedAnnotations'), 1, Len(storedAnnotations))
                 = Identities(storedAnnotations)
       \/ /\ selectedAnnotationId # None
          /\ Identities(storedAnnotations')
                 = Identities(FilterOut(storedAnnotations, selectedAnnotationId[1]))]_vars

\* an annotation committed second is being moved after the first was deleted
C30_Witness ==
    /\ isMoving
    /\ press.n >= 1
    /\ Len(issued) = 2
    /\ Len(storedAnnotations) = 1
    /\ storedAnnotations[1].id = issued[2]
    /\ storedAnnotations[1].id # issued[1]

\* the timestamps of the stored annotations never decrease along the sequence
InCreationOrder(anns) ==
    \A i, j \in DOMAIN anns : i < j => anns[i].createdAt <= anns[j].createdAt

\* C31: the stored collection is always in creation order: a commit appends
\* at the end, a move or a resize keeps every annotation at its position, and
\* a deletion removes the selected annotation and keeps all others in their
\* relative order
C31_CreationOrder ==
    /\ [](InCreationOrder(storedAnnotations))
    /\ [][/\ Len(storedAnnotations') > Len(storedAnnotations)
              => /\ Len(storedAnnotations') = Len(storedAnnotations) + 1
                 /\ SubSeq(storedAnnotations', 1, Len(storedAnnotations)) = storedAnnotations
          /\ Len(storedAnnotations') = Len(storedAnnotations)
              => Identities(storedAnnotations') = Identities(storedAnnotations)
          /\ Len(storedAnnotations') < Len(storedAnnotations)
              => /\ SelectedIndex # 0
                 /\ storedAnnotations' = Without(storedAnnotations, SelectedIndex)]_vars

\* C32: a pointer-down that selects an annotation (third case of the
\* selection logic) changes nothing but the selection and leaves neither
\* Moving nor Resizing active, the pointer-moves that follow it before the
\* next pointer-up leave the stored collection unchanged, and Moving starts
\* only at a pointer-down inside the bbox of the selected annotation
C32_SelectingPressOnlySelects ==
    [][/\ \A point \in Points :
              (selectedTool = NoTool /\ DownBranch(point) = "select"
               /\ handleMouseDown(point))
              => /\ selectedAnnotationId' # None
                 /\ ~isMoving' /\ ~isResizing'
                 /\ UNCHANGED <<drawVars, textVars, propVars, storedAnnotations,
                                isMoving, isResizing, resizeHandle, moveStartPoint>>
       /\ \A point \in Points :
              (press.kind = "select" /\ handleMouseMove(point))
              => UNCHANGED storedAnnotations
       /\ (~isMoving /\ isMoving')
              => \E point \in Points :
                     /\ handleMouseDown(point)
                     /\ SelectedIndex # 0
                     /\ isPointInBbox(point, storedAnnotations[SelectedIndex].bbox)]_vars

\* C33: every stored annotation has a bbox of non-negative width and height
\* in every reachable state
C33_ExtentsNonNegative ==
    \A i \in DOMAIN storedAnnotations :
        storedAnnotations[i].bbox.w >= 0 /\ storedAnnotations[i].bbox.h >= 0

\* a west handle has been dragged past the right edge of the selected box
C33_Witness ==
    /\ isResizing
    /\ resizeHandle = "sw"
    /\ press.kind = "resize"
    /\ press.n >= 1
    /\ press.pt = <<Pt(10, 50)>>
    /\ press.last = <<Pt(56, 50)>>
    /\ SelectedIndex # 0
    /\ storedAnnotations[SelectedIndex].bbox.w = minSize

\* C34: the selection never dangles: the selected id is none or the id of a
\* stored annotation, and at most one stored annotation is the selected one
C34_SelectionNeverDangles ==
    /\ selectedAnnotationId # None => SelectedIndex # 0
    /\ \A i, j \in DOMAIN storedAnnotations : (IsSelected(i) /\ IsSelected(j)) => i = j

\* C35: while a text entry is pending, a key pressed inside the entry field
\* never removes or modifies a stored annotation: Enter changes the
\* collection only by appending, and every other key, Delete included, leaves
\* the collection as it is
C35_EntryKeysNeverDelete ==
    [][\A key \in Keys, timestamp \in ClockReads \cup {now} :
          (TextInputShown /\ KeyInTextInput(key, timestamp))
          => IF key = "Enter"
             THEN \/ UNCHANGED storedAnnotations
                  \/ /\ Len(storedAnnotations') = Len(storedAnnotations) + 1
                     /\ SubSeq(storedAnnotations', 1, Len(storedAnnotations))
                            = storedAnnotations
             ELSE UNCHANGED storedAnnotations]_vars

\* C36: a text entry is pending only while the text tool is the active tool,
\* and a text annotation is committed only while the text tool is active
C36_EntryOnlyWithTextTool ==
    /\ [](TextInputShown => selectedTool = "text")
    /\ [][(/\ Len(storedAnnotations') = Len(storedAnnotations) + 1
           /\ storedAnnotations'[Len(storedAnnotations')].type = "text")
          => selectedTool = "text"]_vars

\* the runs of renderPage whose pdfPage.render is drawing on the canvas
Drawing == {i \in DOMAIN renders : renders[i].stage = "render"}

\* C37: at most one page render operation runs on the viewer canvas at a
\* time, and an operation on the current document that the page prop has
\* superseded is not drawing on the canvas
C37_OneRenderAtATime ==
    /\ Cardinality(Drawing) <= 1
    /\ \A i \in Drawing :
           (pdfDoc # None /\ renders[i].doc = pdfDoc[1]) => ~renders[i].cancelled

\* C38: an error is displayed only while the most recent load or page-render
\* attempt failed: when the render of the requested page of the loaded
\* document succeeds, no error is displayed and the canvas is shown
C38_ErrorClearedBySuccess ==
    [][\A i \in DOMAIN renders :
          (/\ renders[i].stage = "render"
           /\ ~renders[i].cancelled
           /\ renderSettled(i, [ok |-> TRUE]))
          => /\ ~ErrorShown'
             /\ CanvasDisplay' = "block"]_vars

\* C39: the document is loaded once per url: in the App a step that keeps
\* the url starts no load and does not put the viewer back into the
\* loading state, in which its canvas is hidden
C39_LoadedOncePerUrl ==
    [][url' = url
          => /\ started' = started
             /\ loading' => loading
             /\ (CanvasDisplay = "block" => CanvasDisplay' = "block")]_vars

\* C40: in the App the page shown by the pagination control equals the
\* current page passed to the viewer and to the drawing surface, and lies
\* within 1..numPages
C40_PageShownIsCurrent ==
    /\ paginationPage = page
    /\ InRange
====
